---- MODULE Spec2Model ----
(***************************************************************************)
(* A model of the authentication core of uc-server: the login rate        *)
(* limiters (per username, per client address), the access-token          *)
(* lifecycle, the session cache with its per-account index, the tenant    *)
(* resolver and the login / logout / change-password / request            *)
(* authentication flows.                                                   *)
(*                                                                         *)
(* Time is counted in seconds.  A Redis key with a TTL is stored with its  *)
(* absolute expiry instant; NoExpiry marks a key without TTL and NoKey an  *)
(* absent key.  Every Redis call of a request may fail: the input "fault"  *)
(* of an operation names the one call that fails ("all": every call,       *)
(* "none": no call).                                                       *)
(***************************************************************************)
EXTENDS Integers, Sequences, FiniteSets, TLC

VARIABLES
    now,            \* the wall clock, in seconds
    users,          \* Record Store: table user, by id
    members,        \* Record Store: table tenant_user joined with tenant, by <<user id, tenant id>>
    loginAttempts,  \* Redis user:login:attempts:<username>
    loginLocked,    \* Redis user:login:locked:<username>
    ipAttempts,     \* Redis user:login:client_ip:attempts:<ip>
    ipLocked,       \* Redis user:login:ip:locked:<ip>
    sessions,       \* Redis user:session:<user id>:<session id>
    sessionIndex,   \* Redis user:session:index:<user id>
    blacklist,      \* Redis blacklist:<...>
    cachedUsers,    \* Redis user:<user id>
    issued,         \* the access tokens handed out so far (held by clients)
    fails,          \* per username: consecutive logins answered "invalid credentials"
    ticks,          \* how often the clock has advanced
    changes,        \* how often the Record Store was changed from outside
    inflight,       \* the calls in progress that are run step by step, each at its position
    last            \* the operation served last, and what its caller saw

vars == <<now, users, members, loginAttempts, loginLocked, ipAttempts, ipLocked,
          sessions, sessionIndex, blacklist, cachedUsers, issued, fails, ticks, changes,
          inflight, last>>

rateVars == <<loginAttempts, loginLocked, ipAttempts, ipLocked>>
cacheVars == <<sessions, sessionIndex>>
storeVars == <<users, members>>

----------------------------------------------------------------------------
(* Program constants *)

usernameRateLimitMaxAttempts == 5
usernameRateLimitLockDuration == 1800
usernameRateLimitWindowSize == 60

IPMaxAttempts == 10
IPLockDuration == 1800
IPWindowDuration == 60

defaultUserCacheTTL == 1800
defaultSessionTTL == 86400
sessionIndexExtra == 3600
jwtExpiresIn == 604800

\* the tenant id that handleSystemAdminLogin puts into a system administrator's
\* token and session
AdminTenantID == 1

(* Bounds of the model *)

MaxTicks == 2
MaxTokens == 2
MaxChanges == 1
MaxFails == 6

----------------------------------------------------------------------------
(* Redis keys *)

NoKey == 0
NoExpiry == -1

\* a key that exists at instant t
Alive(exp, t) == exp = NoExpiry \/ exp > t

\* the expiry Redis keeps for a key whose TTL is set to ttl at instant t
ExpireAt(t, ttl) == t + ttl

\* whether the Redis call named call fails under fault
Fails(fault, call) == fault = call \/ fault = "all"

NoCounter == [n |-> 0, exp |-> NoKey]

\* INCR: creates the key with value 1 and no TTL, or adds one and keeps the TTL
Incr(c) ==
    IF c.n = 0 THEN [n |-> 1, exp |-> NoExpiry] ELSE [n |-> c.n + 1, exp |-> c.exp]

\* an increment made by the caller: SET of one more than a value read before
RedisIncrFromRead(c, seen) ==
    IF c.n = 0 THEN [n |-> seen + 1, exp |-> NoExpiry] ELSE [n |-> seen + 1, exp |-> c.exp]

\* Redis.Incr sent by a caller that saw the counter at seen when it started:
\* the server adds one to the value the key holds when the command runs
RedisIncr(c, seen) == Incr(c)

\* EXPIRE on an existing key
Expire(c, t, ttl) == IF c.n = 0 THEN c ELSE [c EXCEPT !.exp = ExpireAt(t, ttl)]

\* what Redis drops when the clock reaches t
PurgeCounter(c, t) == IF c.n > 0 /\ ~Alive(c.exp, t) THEN NoCounter ELSE c
PurgeFlag(exp, t) == IF exp # NoKey /\ ~Alive(exp, t) THEN NoKey ELSE exp

----------------------------------------------------------------------------
(* Record Store *)

UserIDs == {1, 2, 3}
TenantIDs == {10, 20}
MemberKeys == {2} \X TenantIDs

UserRoleUser == "user"
UserRoleAdminTenant == "tenant_admin"
UserRoleAdminSystem == "super_admin"

UserStatusInactive == 0
UserStatusActive == 1

NotFound == [found |-> FALSE, id |-> 0]

\* SELECT ... WHERE username = ? (soft-deleted rows are not seen)
FindByUsername(name) ==
    LET hit == {id \in UserIDs : ~users[id].deleted /\ users[id].username = name}
    IN  IF hit = {} THEN NotFound ELSE [found |-> TRUE, id |-> CHOOSE id \in hit : TRUE]

\* SELECT ... WHERE email = ?
FindByEmail(email) ==
    LET hit == {id \in UserIDs : ~users[id].deleted /\ users[id].email = email}
    IN  IF hit = {} THEN NotFound ELSE [found |-> TRUE, id |-> CHOOSE id \in hit : TRUE]

\* SELECT ... WHERE id = ?
FindByID(id) ==
    IF id \in UserIDs /\ ~users[id].deleted THEN [found |-> TRUE, id |-> id] ELSE NotFound

\* bcrypt.CompareHashAndPassword against the stored hash
CheckPassword(id, password) == users[id].password = password

\* One row of tenant_user LEFT JOIN tenant, as a TenantUserWithTenant
Row(uid, tid) ==
    [tid |-> tid, tname |-> members[<<uid, tid>>].tname, role |-> members[<<uid, tid>>].role,
     lastLoginAt |-> members[<<uid, tid>>].lastLoginAt,
     createdAt |-> members[<<uid, tid>>].createdAt]

\* WHERE tenant_user.user_id = ? AND tenant_user.status = 1 AND tenant.status = 1
ActiveTenants(uid) ==
    {tid \in TenantIDs : /\ <<uid, tid>> \in DOMAIN members
                         /\ members[<<uid, tid>>].exists
                         /\ members[<<uid, tid>>].status = 1
                         /\ members[<<uid, tid>>].tstatus = 1}

\* The orders in which the query may list a set of tenants (it has no ORDER BY)
Orderings(S) ==
    {s \in UNION {[1..n -> S] : n \in {Cardinality(S)}} :
        \A i, j \in DOMAIN s : i # j => s[i] # s[j]}

\* FindUserTenantsWithTenant: the active rows in the listed order; the error
\* "user has no active tenants" when there is none
FindUserTenantsWithTenant(uid, order) ==
    IF ActiveTenants(uid) = {}
    THEN [err |-> TRUE, rows |-> <<>>]
    ELSE [err |-> FALSE, rows |-> [i \in DOMAIN order |-> Row(uid, order[i])]]

\* UPDATE tenant_user SET last_login_at = NOW() WHERE tenant_id = ? AND user_id = ?
UpdateLastLoginAt(m, tid, uid, t) ==
    IF <<uid, tid>> \in DOMAIN m /\ m[<<uid, tid>>].exists
    THEN [m EXCEPT ![<<uid, tid>>].lastLoginAt = t]
    ELSE m

----------------------------------------------------------------------------
(* Tenant Resolver *)

RECURSIVE ScanLatest(_, _, _)
\* for _, tu := range hasLoginRecord[1:] { if tu.LastLoginAt > mostRecent.LastLoginAt ... }
ScanLatest(s, i, cur) ==
    IF i > Len(s) THEN cur
    ELSE ScanLatest(s, i + 1, IF s[i].lastLoginAt > cur.lastLoginAt THEN s[i] ELSE cur)

RECURSIVE ScanEarliest(_, _, _)
\* for _, tu := range noLoginRecord[1:] { if tu.CreatedAt < earliest.CreatedAt ... }
ScanEarliest(s, i, cur) ==
    IF i > Len(s) THEN cur
    ELSE ScanEarliest(s, i + 1, IF s[i].createdAt < cur.createdAt THEN s[i] ELSE cur)

HasLogin(tu) == tu.lastLoginAt # 0
NoLogin(tu) == tu.lastLoginAt = 0
IsAdminTenant(tu) == tu.role = UserRoleAdminTenant
IsRegularTenant(tu) == tu.role # UserRoleAdminTenant

NoTenant == [tid |-> 0, tname |-> "", role |-> "", lastLoginAt |-> 0, createdAt |-> 0]

\* selectMostRecentTenant without its fall-back to the earliest membership
selectMostRecentTenantNoFallback(tenants) ==
    LET hasLoginRecord == SelectSeq(tenants, HasLogin)
    IN  IF Len(hasLoginRecord) > 0 THEN ScanLatest(hasLoginRecord, 2, hasLoginRecord[1])
        ELSE NoTenant

selectMostRecentTenant(tenants) ==
    LET hasLoginRecord == SelectSeq(tenants, HasLogin)
        noLoginRecord == SelectSeq(tenants, NoLogin)
    IN  IF Len(tenants) = 0 THEN NoTenant
        ELSE IF Len(hasLoginRecord) > 0 THEN ScanLatest(hasLoginRecord, 2, hasLoginRecord[1])
        ELSE ScanEarliest(noLoginRecord, 2, noLoginRecord[1])

\* selectDefaultTenant without its preference for tenant_admin memberships
selectDefaultTenantNoPreference(tenantUsers) ==
    IF Len(tenantUsers) = 0 THEN NoTenant
    ELSE IF Len(tenantUsers) = 1 THEN tenantUsers[1]
    ELSE selectMostRecentTenant(tenantUsers)

selectDefaultTenant(tenantUsers) ==
    LET adminTenants == SelectSeq(tenantUsers, IsAdminTenant)
        regularTenants == SelectSeq(tenantUsers, IsRegularTenant)
    IN  IF Len(tenantUsers) = 0 THEN NoTenant
        ELSE IF Len(tenantUsers) = 1 THEN tenantUsers[1]
        ELSE IF Len(adminTenants) > 0 THEN selectMostRecentTenant(adminTenants)
        ELSE selectMostRecentTenant(regularTenants)

\* buildTenantList
buildTenantList(tenantUsers) ==
    [i \in DOMAIN tenantUsers |->
        [tid |-> tenantUsers[i].tid, tname |-> tenantUsers[i].tname, role |-> tenantUsers[i].role]]

\* buildUserResponse
buildUserResponse(id, role) ==
    [id |-> id, username |-> users[id].username, email |-> users[id].email,
     role |-> role, status |-> users[id].status]

----------------------------------------------------------------------------
(* Token Lifecycle Manager *)

SecretKey == "secret"

\* The first ten characters of every HS256 token: its header is the same JSON
\* {"alg":"HS256","typ":"JWT"} for all of them
JWTHeader10 == "eyJhbGciOi"

\* token.SignedString(key): the HMAC of the header and the claims under key
SignedString(claims, key) == [key |-> key, claims |-> claims]

\* GenerateAccessToken putting no tenant into the claims
GenerateAccessTokenNoTenant(userID, tenantID, role, t) ==
    LET claims == [uid |-> userID, tid |-> 0, role |-> role,
                   iat |-> t, exp |-> t + jwtExpiresIn, jti |-> ""]
    IN  [claimsID |-> claims.jti,
         accessToken |-> [head |-> JWTHeader10, claims |-> claims,
                         sig |-> SignedString(claims, SecretKey)],
         expiresAt |-> claims.exp]

\* GenerateAccessToken at instant t: the claims set no ID, so the returned
\* claims.ID is the empty string
GenerateAccessToken(userID, tenantID, role, t) ==
    LET claims == [uid |-> userID, tid |-> tenantID, role |-> role,
                   iat |-> t, exp |-> t + jwtExpiresIn, jti |-> ""]
    IN  [claimsID |-> claims.jti,
         accessToken |-> [head |-> JWTHeader10, claims |-> claims,
                         sig |-> SignedString(claims, SecretKey)],
         expiresAt |-> claims.exp]

\* ParseAccessToken not looking at the expiry
ParseAccessTokenNoExpiry(tokenString, t) ==
    IF tokenString.sig = SignedString(tokenString.claims, SecretKey)
    THEN [err |-> FALSE, claims |-> tokenString.claims]
    ELSE [err |-> TRUE, claims |-> tokenString.claims]

\* ParseAccessToken at instant t: the signature is the one the secret key gives
\* for the token's claims, and the expiry is not reached
ParseAccessToken(tokenString, t) ==
    IF tokenString.sig = SignedString(tokenString.claims, SecretKey) /\ t < tokenString.claims.exp
    THEN [err |-> FALSE, claims |-> tokenString.claims]
    ELSE [err |-> TRUE, claims |-> tokenString.claims]

\* len(tokenString) in bytes: a string that is not a token carries its length;
\* a signed token is longer than its header, which is 36 characters
JWTHeaderLen == 36
TokenIDPrefixLen == 10
StringLen(tokenString) ==
    IF "len" \in DOMAIN tokenString THEN tokenString.len ELSE JWTHeaderLen

\* tokenString[:10] is within the string; otherwise the slice expression
\* panics with "slice bounds out of range"
SliceInRange(tokenString) == StringLen(tokenString) >= TokenIDPrefixLen

\* GenerateTokenIDFromToken: "token-" + tokenString[:10]
GenerateTokenIDFromToken(tokenString) == <<"token-", tokenString.head>>

\* generateAccessTokenKey: "blacklist:" + hex(sha256(token)[:16])
generateAccessTokenKey(tokenString) == <<"blacklist:", "sha256", tokenString>>

\* "blacklist:" + tokenID
BlacklistKeyByTokenID(tokenString) == <<"blacklist:", GenerateTokenIDFromToken(tokenString)>>

\* GetTokenExpiry
GetTokenExpiry(tokenString, t) ==
    LET p == ParseAccessToken(tokenString, t)
    IN  IF p.err THEN [err |-> TRUE, exp |-> 0] ELSE [err |-> FALSE, exp |-> p.claims.exp]

----------------------------------------------------------------------------
(* Rate Limiter, keyed by username *)

\* IsAccountLocked: the lock flag as read now; err when the GET, or the TTL
\* read that follows a hit, fails
IsAccountLocked(lock, fault) ==
    IF Fails(fault, "IsAccountLocked") THEN [err |-> TRUE, locked |-> FALSE]
    ELSE IF lock = NoKey THEN [err |-> FALSE, locked |-> FALSE]
    ELSE [err |-> Fails(fault, "TTL"), locked |-> TRUE]

\* GetLoginAttempts: a missing key counts as 0
GetLoginAttempts(att, fault) ==
    IF Fails(fault, "GetLoginAttempts") THEN [err |-> TRUE, n |-> 0]
    ELSE [err |-> FALSE, n |-> att.n]

\* LockAccount: SET key "true" with the lock duration
LockAccount(lock, t, fault) ==
    IF Fails(fault, "LockAccount") THEN lock ELSE ExpireAt(t, usernameRateLimitLockDuration)

\* checkUsernameRateLimit refusing only above the maximum
checkUsernameRateLimitAbove(att, lock, t, fault) ==
    LET l == IsAccountLocked(lock, fault)
        a == GetLoginAttempts(att, fault)
    IN  IF l.err THEN [refused |-> FALSE, lock |-> lock]
        ELSE IF l.locked THEN [refused |-> TRUE, lock |-> lock]
        ELSE IF a.err THEN [refused |-> FALSE, lock |-> lock]
        ELSE IF a.n > usernameRateLimitMaxAttempts
             THEN [refused |-> TRUE, lock |-> LockAccount(lock, t, fault)]
        ELSE [refused |-> FALSE, lock |-> lock]

\* checkUsernameRateLimit refusing the attempt when a read of the cache fails
checkUsernameRateLimitClosed(att, lock, t, fault) ==
    LET l == IsAccountLocked(lock, fault)
        a == GetLoginAttempts(att, fault)
    IN  IF l.err THEN [refused |-> TRUE, lock |-> lock]
        ELSE IF l.locked THEN [refused |-> TRUE, lock |-> lock]
        ELSE IF a.err THEN [refused |-> TRUE, lock |-> lock]
        ELSE IF a.n >= usernameRateLimitMaxAttempts
             THEN [refused |-> TRUE, lock |-> LockAccount(lock, t, fault)]
        ELSE [refused |-> FALSE, lock |-> lock]

\* checkUsernameRateLimit: whether the attempt is refused, and the lock flag it leaves
checkUsernameRateLimit(att, lock, t, fault) ==
    LET l == IsAccountLocked(lock, fault)
        a == GetLoginAttempts(att, fault)
    IN  IF l.err THEN [refused |-> FALSE, lock |-> lock]
        ELSE IF l.locked THEN [refused |-> TRUE, lock |-> lock]
        ELSE IF a.err THEN [refused |-> FALSE, lock |-> lock]
        ELSE IF a.n >= usernameRateLimitMaxAttempts
             THEN [refused |-> TRUE, lock |-> LockAccount(lock, t, fault)]
        ELSE [refused |-> FALSE, lock |-> lock]

\* IncrementLoginAttempts: INCR, then EXPIRE whose error is dropped
IncrementLoginAttempts(att, t, duration, fault) ==
    IF Fails(fault, "Incr") THEN att
    ELSE IF Fails(fault, "Expire") THEN Incr(att)
    ELSE Expire(Incr(att), t, duration)

\* recordLoginFailure
recordLoginFailure(att, t, fault) ==
    IncrementLoginAttempts(att, t, usernameRateLimitWindowSize, fault)

\* UnlockAccount deleting the lock key only
UnlockAccountLockOnly(att, lock, fault) ==
    IF Fails(fault, "UnlockAccount") THEN [err |-> TRUE, att |-> att, lock |-> lock]
    ELSE [err |-> FALSE, att |-> att, lock |-> NoKey]

\* UnlockAccount: one DEL of the lock key and the attempts key
UnlockAccount(att, lock, fault) ==
    IF Fails(fault, "UnlockAccount") THEN [err |-> TRUE, att |-> att, lock |-> lock]
    ELSE [err |-> FALSE, att |-> NoCounter, lock |-> NoKey]

\* clearLoginAttempts: the error of UnlockAccount is logged and dropped
clearLoginAttempts(att, lock, fault) ==
    [att |-> UnlockAccount(att, lock, fault).att, lock |-> UnlockAccount(att, lock, fault).lock]

----------------------------------------------------------------------------
(* Rate Limiter, keyed by client address *)

\* IsClientIPLocked
IsClientIPLocked(lock, fault) ==
    IF Fails(fault, "IsClientIPLocked") THEN [err |-> TRUE, locked |-> FALSE]
    ELSE IF lock = NoKey THEN [err |-> FALSE, locked |-> FALSE]
    ELSE [err |-> Fails(fault, "TTL"), locked |-> TRUE]

\* GetClientIPLoginAttempts
GetClientIPLoginAttempts(att, fault) ==
    IF Fails(fault, "GetClientIPLoginAttempts") THEN [err |-> TRUE, n |-> 0]
    ELSE [err |-> FALSE, n |-> att.n]

\* LockClientIP with the configured lock duration
LockClientIP(lock, t, fault) ==
    IF Fails(fault, "LockClientIP") THEN lock ELSE ExpireAt(t, IPLockDuration)

\* IncrementClientIPLoginAttempts with the configured window
IncrementClientIPLoginAttempts(att, t, fault) ==
    IF Fails(fault, "IncrIP") THEN att
    ELSE IF Fails(fault, "ExpireIP") THEN Incr(att)
    ELSE Expire(Incr(att), t, IPWindowDuration)

\* UnlockClientIP: one DEL of both keys, its error dropped by the limiter
UnlockClientIP(att, lock, fault) ==
    IF Fails(fault, "UnlockClientIP") THEN [att |-> att, lock |-> lock]
    ELSE [att |-> NoCounter, lock |-> NoKey]

\* IPRateLimiter before the handler runs: whether the request is answered 429
\* at once, the lock flag that is left, and whether the limiter will look at
\* the handler's status (it returns right after c.Next() on a cache error)
IPAdmission(att, lock, t, fault) ==
    LET l == IsClientIPLocked(lock, fault)
        a == GetClientIPLoginAttempts(att, fault)
    IN  IF l.err THEN [refused |-> FALSE, lock |-> lock, after |-> FALSE]
        ELSE IF l.locked THEN [refused |-> TRUE, lock |-> lock, after |-> FALSE]
        ELSE IF a.err THEN [refused |-> FALSE, lock |-> lock, after |-> FALSE]
        ELSE IF a.n >= IPMaxAttempts
             THEN [refused |-> TRUE, lock |-> LockClientIP(lock, t, fault), after |-> FALSE]
        ELSE [refused |-> FALSE, lock |-> lock, after |-> TRUE]

\* IPRateLimiter after the handler has run, by the status it answered
IPAfter(att, lock, status, t, fault) ==
    IF status = 401 THEN [att |-> IncrementClientIPLoginAttempts(att, t, fault), lock |-> lock]
    ELSE IF status = 200 THEN UnlockClientIP(att, lock, fault)
    ELSE [att |-> att, lock |-> lock]

----------------------------------------------------------------------------
(* Session Cache *)

SessionIDs == {"", "s1", "s2"}
SessionKeys == UserIDs \X SessionIDs

NoData == [uid |-> 0]
NoSession == [exp |-> NoKey, data |-> NoData]
NoIndex == [ids |-> {}, exp |-> NoKey]

\* SetUserSession: SETEX of the payload, SADD to the index, EXPIRE of the
\* index; the first call that fails ends it
SetUserSession(ss, ix, userID, sessionID, data, t, fault) ==
    LET ss1 == [ss EXCEPT ![<<userID, sessionID>>] =
                    [exp |-> ExpireAt(t, defaultSessionTTL), data |-> data]]
        added == [ids |-> ix[userID].ids \cup {sessionID},
                  exp |-> IF ix[userID].exp = NoKey THEN NoExpiry ELSE ix[userID].exp]
        ix1 == [ix EXCEPT ![userID] = added]
        ix2 == [ix EXCEPT ![userID] =
                    [added EXCEPT !.exp = ExpireAt(t, defaultSessionTTL + sessionIndexExtra)]]
    IN  IF Fails(fault, "SetJSON") THEN [err |-> TRUE, sessions |-> ss, sessionIndex |-> ix]
        ELSE IF Fails(fault, "SAdd") THEN [err |-> TRUE, sessions |-> ss1, sessionIndex |-> ix]
        ELSE IF Fails(fault, "ExpireIndex")
             THEN [err |-> TRUE, sessions |-> ss1, sessionIndex |-> ix1]
        ELSE [err |-> FALSE, sessions |-> ss1, sessionIndex |-> ix2]

\* GetUserSession: a miss or a failed GET is an error
GetUserSession(ss, userID, sessionID, fault) ==
    IF Fails(fault, "GetJSON") \/ <<userID, sessionID>> \notin SessionKeys
       \/ ss[<<userID, sessionID>>].exp = NoKey
    THEN [err |-> TRUE, data |-> NoData]
    ELSE [err |-> FALSE, data |-> ss[<<userID, sessionID>>].data]

\* SREM; Redis drops a set that becomes empty
SRem(index, sessionID) ==
    IF index.ids \ {sessionID} = {} THEN NoIndex ELSE [index EXCEPT !.ids = @ \ {sessionID}]

\* DeleteUserSession: DEL of the payload, then SREM from the index
DeleteUserSession(ss, ix, userID, sessionID, fault) ==
    LET ss1 == [ss EXCEPT ![<<userID, sessionID>>] = NoSession]
    IN  IF Fails(fault, "Del") THEN [err |-> TRUE, sessions |-> ss, sessionIndex |-> ix]
        ELSE IF Fails(fault, "SRem") THEN [err |-> TRUE, sessions |-> ss1, sessionIndex |-> ix]
        ELSE [err |-> FALSE, sessions |-> ss1,
              sessionIndex |-> [ix EXCEPT ![userID] = SRem(ix[userID], sessionID)]]

\* DeleteAllUserSessions: SMEMBERS of the index; nothing to do when it is
\* empty; else one DEL of every listed payload and of the index
DeleteAllUserSessions(ss, ix, userID, fault) ==
    LET sessionIDs == ix[userID].ids
    IN  IF Fails(fault, "SMembers") THEN [err |-> TRUE, sessions |-> ss, sessionIndex |-> ix]
        ELSE IF sessionIDs = {} THEN [err |-> FALSE, sessions |-> ss, sessionIndex |-> ix]
        ELSE IF Fails(fault, "Del") THEN [err |-> TRUE, sessions |-> ss, sessionIndex |-> ix]
        ELSE [err |-> FALSE,
              sessions |-> [k \in SessionKeys |->
                               IF k[1] = userID /\ k[2] \in sessionIDs THEN NoSession ELSE ss[k]],
              sessionIndex |-> [ix EXCEPT ![userID] = NoIndex]]

\* RevokeAllUserSessions
RevokeAllUserSessions(ss, ix, userID, fault) == DeleteAllUserSessions(ss, ix, userID, fault)

\* what Redis drops from the session cache when the clock reaches t
PurgeSessions(ss, t) ==
    [k \in SessionKeys |-> IF ss[k].exp # NoKey /\ ~Alive(ss[k].exp, t) THEN NoSession ELSE ss[k]]
PurgeIndex(ix, t) ==
    [u \in UserIDs |-> IF ix[u].exp # NoKey /\ ~Alive(ix[u].exp, t) THEN NoIndex ELSE ix[u]]

----------------------------------------------------------------------------
(* Login service *)

LoginNames == {"admin", "alice", "bob", "ghost"}
ClientIPs == {"ip1"}

NoClaims == [uid |-> 0, tid |-> 0, role |-> "", iat |-> 0, exp |-> 0, jti |-> ""]
NoToken == [head |-> "", claims |-> NoClaims, sig |-> [key |-> "", claims |-> NoClaims]]
NoResp == [accessToken |-> NoToken]

\* WarmUpUserCache writing nothing
WarmUpUserCacheSkipped(ss, ix, claimsID, sessionData, t, fault) ==
    [sessions |-> ss, sessionIndex |-> ix]

\* WarmUpUserCache: the error of SetUserSession is logged and dropped
WarmUpUserCache(ss, ix, claimsID, sessionData, t, fault) ==
    [sessions |-> SetUserSession(ss, ix, sessionData.uid, claimsID, sessionData, t, fault).sessions,
     sessionIndex |->
         SetUserSession(ss, ix, sessionData.uid, claimsID, sessionData, t, fault).sessionIndex]

\* handleSystemAdminLogin taking the tenant of a membership when there is one
handleSystemAdminLoginAsMember(id, t, fault) ==
    LET tenantID == IF ActiveTenants(id) = {} THEN AdminTenantID
                    ELSE CHOOSE tid \in ActiveTenants(id) : TRUE
        gen == GenerateAccessToken(id, tenantID, users[id].role, t)
        sessionData == [uid |-> id, user |-> buildUserResponse(id, users[id].role),
                        tid |-> tenantID, tname |-> "", role |-> users[id].role,
                        tenants |-> <<>>, isGlobalAdmin |-> TRUE]
        warm == WarmUpUserCache(sessions, sessionIndex, gen.claimsID, sessionData, t, fault)
    IN  [err |-> "",
         resp |-> [accessToken |-> gen.accessToken, expiresAt |-> gen.expiresAt,
                   user |-> buildUserResponse(id, users[id].role),
                   currentTenant |-> [tid |-> 0, tname |-> "", role |-> ""],
                   tenants |-> <<>>, isGlobalAdmin |-> TRUE],
         warmed |-> sessionData, members |-> members,
         sessions |-> warm.sessions, sessionIndex |-> warm.sessionIndex]

\* handleSystemAdminLogin: the token and the session carry the fixed tenant id
\* 1; no query is made for the memberships
handleSystemAdminLogin(id, t, fault) ==
    LET gen == GenerateAccessToken(id, AdminTenantID, users[id].role, t)
        sessionData == [uid |-> id, user |-> buildUserResponse(id, users[id].role),
                        tid |-> AdminTenantID, tname |-> "", role |-> users[id].role,
                        tenants |-> <<>>, isGlobalAdmin |-> TRUE]
        warm == WarmUpUserCache(sessions, sessionIndex, gen.claimsID, sessionData, t, fault)
    IN  [err |-> "",
         resp |-> [accessToken |-> gen.accessToken, expiresAt |-> gen.expiresAt,
                   user |-> buildUserResponse(id, users[id].role),
                   currentTenant |-> [tid |-> 0, tname |-> "", role |-> ""],
                   tenants |-> <<>>, isGlobalAdmin |-> TRUE],
         warmed |-> sessionData, members |-> members,
         sessions |-> warm.sessions, sessionIndex |-> warm.sessionIndex]

handleTenantUserLogin(id, order, t, fault) ==
    LET found == FindUserTenantsWithTenant(id, order)
        tenantUsers == found.rows
        tenants == buildTenantList(tenantUsers)
        selectedTenant == selectDefaultTenant(tenantUsers)
        gen == GenerateAccessToken(id, selectedTenant.tid, users[id].role, t)
        sessionData == [uid |-> id, user |-> buildUserResponse(id, users[id].role),
                        tid |-> selectedTenant.tid, tname |-> selectedTenant.tname,
                        role |-> selectedTenant.role,
                        tenants |-> tenants, isGlobalAdmin |-> FALSE]
        warm == WarmUpUserCache(sessions, sessionIndex, gen.claimsID, sessionData, t, fault)
    IN  IF found.err
        THEN [err |-> "user has no active tenants", resp |-> NoResp, warmed |-> NoData,
              members |-> members, sessions |-> sessions, sessionIndex |-> sessionIndex]
        ELSE [err |-> "",
              resp |-> [accessToken |-> gen.accessToken, expiresAt |-> gen.expiresAt,
                        user |-> buildUserResponse(id, users[id].role),
                        currentTenant |-> [tid |-> selectedTenant.tid,
                                           tname |-> selectedTenant.tname,
                                           role |-> selectedTenant.role],
                        tenants |-> tenants, isGlobalAdmin |-> FALSE],
              warmed |-> sessionData,
              members |-> IF Fails(fault, "UpdateLastLoginAt") THEN members
                          ELSE UpdateLastLoginAt(members, selectedTenant.tid, id, t),
              sessions |-> warm.sessions, sessionIndex |-> warm.sessionIndex]

\* The account a login name resolves to: by username, else by email
LoginUser(username) ==
    IF FindByUsername(username).found THEN FindByUsername(username) ELSE FindByEmail(username)

\* whether the query named call fails under fault ("store": every query)
StoreFails(fault, call) == fault = call \/ fault = "store"

\* The account Login goes on with: FindByUsername, and FindByEmail after any
\* error of it; an error of FindByEmail, whatever it is, leaves no account
LookupUser(username, fault) ==
    IF ~StoreFails(fault, "FindByUsername") /\ FindByUsername(username).found
    THEN FindByUsername(username)
    ELSE IF StoreFails(fault, "FindByEmail") THEN NotFound
    ELSE FindByEmail(username)

\* authService.Login telling an unknown name apart: no failure recorded for it,
\* and an error of its own
LoginLeaky(username, password, fault, order, t) ==
    LET att == loginAttempts[username]
        lock == loginLocked[username]
        chk == checkUsernameRateLimit(att, lock, t, fault)
        user == LoginUser(username)
        unchanged == [resp |-> NoResp, warmed |-> NoData, members |-> members,
                      sessions |-> sessions, sessionIndex |-> sessionIndex]
    IN  IF chk.refused
        THEN [err |-> "rate limited", att |-> att, lock |-> chk.lock, calls |-> <<>>] @@ unchanged
        ELSE IF ~user.found
             THEN [err |-> "user not found", att |-> att, lock |-> chk.lock, calls |-> <<>>]
                  @@ unchanged
        ELSE [err |-> "invalid credentials", att |-> recordLoginFailure(att, t, fault),
              lock |-> chk.lock, calls |-> <<>>] @@ unchanged

\* The queries Login makes to find the account, in their order
LookupCalls(username, fault) ==
    IF ~StoreFails(fault, "FindByUsername") /\ FindByUsername(username).found
    THEN <<"FindByUsername">>
    ELSE <<"FindByUsername", "FindByEmail">>

\* authService.Login counting an attempt that its rate limit refuses
LoginCountingRefused(username, password, fault, order, t) ==
    LET att == loginAttempts[username]
        lock == loginLocked[username]
        chk == checkUsernameRateLimit(att, lock, t, fault)
        user == LookupUser(username, fault)
        run == IF users[user.id].role = UserRoleAdminSystem
               THEN handleSystemAdminLogin(user.id, t, fault)
               ELSE handleTenantUserLogin(user.id, order, t, fault)
        looked == <<"checkUsernameRateLimit">> \o LookupCalls(username, fault)
        checked == looked \o <<"CheckPassword">>
        handled == checked \o <<IF users[user.id].role = UserRoleAdminSystem
                                 THEN "handleSystemAdminLogin" ELSE "handleTenantUserLogin">>
        unchanged == [resp |-> NoResp, warmed |-> NoData, members |-> members,
                      sessions |-> sessions, sessionIndex |-> sessionIndex]
        failed(err, calls) ==
            [err |-> err, att |-> recordLoginFailure(att, t, fault), lock |-> chk.lock,
             calls |-> calls \o <<"recordLoginFailure">>] @@ unchanged
    IN  IF chk.refused
        THEN [err |-> "rate limited", att |-> recordLoginFailure(att, t, fault),
              lock |-> chk.lock, calls |-> <<"checkUsernameRateLimit">>] @@ unchanged
        ELSE IF ~user.found THEN failed("invalid credentials", looked)
        ELSE IF ~CheckPassword(user.id, password) THEN failed("invalid credentials", checked)
        ELSE IF run.err # ""
             THEN [err |-> run.err, att |-> recordLoginFailure(att, t, fault), lock |-> chk.lock,
                   calls |-> handled \o <<"recordLoginFailure">>,
                   resp |-> NoResp, warmed |-> NoData, members |-> run.members,
                   sessions |-> run.sessions, sessionIndex |-> run.sessionIndex]
        ELSE [err |-> "",
              att |-> clearLoginAttempts(att, chk.lock, fault).att,
              lock |-> clearLoginAttempts(att, chk.lock, fault).lock,
              calls |-> handled \o <<"clearLoginAttempts">>,
              resp |-> run.resp, warmed |-> run.warmed, members |-> run.members,
              sessions |-> run.sessions, sessionIndex |-> run.sessionIndex]

\* authService.Login at instant t, as the error it returns ("" for none), its
\* response, the calls it makes in their order and every value it leaves behind
Login(username, password, fault, order, t) ==
    LET att == loginAttempts[username]
        lock == loginLocked[username]
        chk == checkUsernameRateLimit(att, lock, t, fault)
        user == LookupUser(username, fault)
        run == IF users[user.id].role = UserRoleAdminSystem
               THEN handleSystemAdminLogin(user.id, t, fault)
               ELSE handleTenantUserLogin(user.id, order, t, fault)
        looked == <<"checkUsernameRateLimit">> \o LookupCalls(username, fault)
        checked == looked \o <<"CheckPassword">>
        handled == checked \o <<IF users[user.id].role = UserRoleAdminSystem
                                 THEN "handleSystemAdminLogin" ELSE "handleTenantUserLogin">>
        unchanged == [resp |-> NoResp, warmed |-> NoData, members |-> members,
                      sessions |-> sessions, sessionIndex |-> sessionIndex]
        failed(err, calls) ==
            [err |-> err, att |-> recordLoginFailure(att, t, fault), lock |-> chk.lock,
             calls |-> calls \o <<"recordLoginFailure">>] @@ unchanged
    IN  IF chk.refused
        THEN [err |-> "rate limited", att |-> att, lock |-> chk.lock,
              calls |-> <<"checkUsernameRateLimit">>] @@ unchanged
        ELSE IF ~user.found THEN failed("invalid credentials", looked)
        ELSE IF ~CheckPassword(user.id, password) THEN failed("invalid credentials", checked)
        ELSE IF run.err # ""
             THEN [err |-> run.err, att |-> recordLoginFailure(att, t, fault), lock |-> chk.lock,
                   calls |-> handled \o <<"recordLoginFailure">>,
                   resp |-> NoResp, warmed |-> NoData, members |-> run.members,
                   sessions |-> run.sessions, sessionIndex |-> run.sessionIndex]
        ELSE [err |-> "",
              att |-> clearLoginAttempts(att, chk.lock, fault).att,
              lock |-> clearLoginAttempts(att, chk.lock, fault).lock,
              calls |-> handled \o <<"clearLoginAttempts">>,
              resp |-> run.resp, warmed |-> run.warmed, members |-> run.members,
              sessions |-> run.sessions, sessionIndex |-> run.sessionIndex]

\* AuthHandler.Login: every error of the service is answered 401 "Invalid credentials"
HandlerLogin(username, password, fault, order, t) ==
    LET r == Login(username, password, fault, order, t)
    IN  [status |-> IF r.err = "" THEN 200 ELSE 401,
         message |-> IF r.err = "" THEN "success" ELSE "Invalid credentials",
         svc |-> r]

----------------------------------------------------------------------------
(* Request authentication *)

\* GET of a blacklist key: its value when the key exists and the call succeeds
BlacklistGet(bl, key, fault, call) ==
    IF Fails(fault, call) THEN [err |-> TRUE, val |-> ""]
    ELSE IF \E e \in bl : e.key = key THEN [err |-> FALSE, val |-> "true"]
    ELSE [err |-> TRUE, val |-> ""]

\* SET key "true" with a TTL
BlacklistSet(bl, key, exp) == {e \in bl : e.key # key} \cup {[key |-> key, exp |-> exp]}

\* AuthCache.AddToBlacklistByTokenString / IsInBlacklistByTokenString: the key
\* is the hash of the whole token
AddToBlacklistByTokenString(bl, tokenString, ttl, t) ==
    BlacklistSet(bl, generateAccessTokenKey(tokenString), ExpireAt(t, ttl))
IsInBlacklistByTokenString(bl, tokenString) ==
    BlacklistGet(bl, generateAccessTokenKey(tokenString), "none", "GetBlacklist").val = "true"

\* AuthCache.AddToBlacklistByTokenID / IsInBlacklistByTokenID: the key is
\* blacklistPrefix + GenerateTokenIDFromToken(tokenString)
AddToBlacklistByTokenID(bl, tokenString, ttl, t) ==
    BlacklistSet(bl, BlacklistKeyByTokenID(tokenString), ExpireAt(t, ttl))
IsInBlacklistByTokenID(bl, tokenString) ==
    BlacklistGet(bl, BlacklistKeyByTokenID(tokenString), "none", "GetBlacklist").val = "true"

\* The value c.Set("currentUser", user) stores: the variable user declared
\* before the cache-miss block, a *cache.UserSessionData that is nil on a miss
CurrentUser(hit) ==
    [type |-> "*cache.UserSessionData", isNil |-> hit.err, data |-> hit.data]

\* JWTAuthMiddleware on a request carrying "Bearer <tokenString>" at instant t,
\* reading the blacklist bl and the session cache ss: the answer (status 200
\* stands for c.Next()), the context it sets, and
\* whether the user record is written to the user cache. A panic of
\* GenerateTokenIDFromToken is recovered by RecoveryMiddleware, which answers
\* 500 "Internal server error"
JWTAuthMiddlewareOn(bl, ss, tokenString, fault, t) ==
    LET isBlacklisted == BlacklistGet(bl, BlacklistKeyByTokenID(tokenString),
                                      fault, "GetBlacklist")
        parsed == ParseAccessToken(tokenString, t)
        claims == parsed.claims
        hit == GetUserSession(ss, claims.uid, claims.jti, fault)
        user == FindByID(claims.uid)
        reject(message) == [status |-> 401, message |-> message, claims |-> NoClaims,
                            currentUser |-> CurrentUser([err |-> TRUE, data |-> NoData]),
                            setUser |-> FALSE]
    IN  IF ~SliceInRange(tokenString)
        THEN [reject("Internal server error") EXCEPT !.status = 500]
        ELSE IF ~isBlacklisted.err /\ isBlacklisted.val = "true"
        THEN reject("Token has been revoked")
        ELSE IF parsed.err THEN reject("Invalid or expired token")
        ELSE IF claims.exp < t THEN reject("Token has expired")
        ELSE IF hit.err /\ ~user.found THEN reject("User not found")
        ELSE [status |-> 200, message |-> "", claims |-> claims,
              currentUser |-> CurrentUser(hit), setUser |-> hit.err]

\* JWTAuthMiddleware against the blacklist and the session cache as they are
JWTAuthMiddleware(tokenString, fault, t) ==
    JWTAuthMiddlewareOn(blacklist, sessions, tokenString, fault, t)

\* userCache.SetUser, run by the goroutine the middleware starts on a miss
SetUser(cu, id, t, fault) ==
    IF Fails(fault, "SetUser") THEN cu
    ELSE [cu EXCEPT ![id] = ExpireAt(t, defaultUserCacheTTL)]

\* AuthHandler.Logout blacklisting under the key the middleware reads
LogoutAsUserByTokenID(bl, tokenString, fault, t) ==
    LET exp == GetTokenExpiry(tokenString, t)
        remainingTime == exp.exp - t
        tokenKey == BlacklistKeyByTokenID(tokenString)
    IN  IF exp.err
        THEN [status |-> 500, message |-> "Failed to get token expiry", blacklist |-> bl]
        ELSE IF remainingTime > 0 /\ Fails(fault, "SetBlacklist")
             THEN [status |-> 500, message |-> "Failed to blacklist token", blacklist |-> bl]
        ELSE IF remainingTime > 0
             THEN [status |-> 200, message |-> "Logged out successfully",
                   blacklist |-> BlacklistSet(bl, tokenKey, ExpireAt(t, remainingTime))]
        ELSE [status |-> 200, message |-> "Logged out successfully", blacklist |-> bl]

\* AuthHandler.Logout blacklisting for the full lifetime of a token
LogoutAsUserFullLifetime(bl, tokenString, fault, t) ==
    LET exp == GetTokenExpiry(tokenString, t)
        remainingTime == exp.exp - t
        tokenKey == generateAccessTokenKey(tokenString)
    IN  IF exp.err
        THEN [status |-> 500, message |-> "Failed to get token expiry", blacklist |-> bl]
        ELSE IF remainingTime > 0 /\ Fails(fault, "SetBlacklist")
             THEN [status |-> 500, message |-> "Failed to blacklist token", blacklist |-> bl]
        ELSE IF remainingTime > 0
             THEN [status |-> 200, message |-> "Logged out successfully",
                   blacklist |-> BlacklistSet(bl, tokenKey, ExpireAt(t, jwtExpiresIn))]
        ELSE [status |-> 200, message |-> "Logged out successfully", blacklist |-> bl]

\* AuthHandler.Logout from the point where currentUser is a *model.User, on
\* the blacklist bl: the answer and the blacklist left
LogoutAsUser(bl, tokenString, fault, t) ==
    LET exp == GetTokenExpiry(tokenString, t)
        remainingTime == exp.exp - t
        tokenKey == generateAccessTokenKey(tokenString)
    IN  IF exp.err
        THEN [status |-> 500, message |-> "Failed to get token expiry", blacklist |-> bl]
        ELSE IF remainingTime > 0 /\ Fails(fault, "SetBlacklist")
             THEN [status |-> 500, message |-> "Failed to blacklist token", blacklist |-> bl]
        ELSE IF remainingTime > 0
             THEN [status |-> 200, message |-> "Logged out successfully",
                   blacklist |-> BlacklistSet(bl, tokenKey, ExpireAt(t, remainingTime))]
        ELSE [status |-> 200, message |-> "Logged out successfully", blacklist |-> bl]

\* AuthHandler.Logout behind the middleware: the answer and the blacklist left
Logout(tokenString, fault, t) ==
    LET mw == JWTAuthMiddleware(tokenString, fault, t)
        body == LogoutAsUser(blacklist, tokenString, fault, t)
        answer(status, message, bl) == [status |-> status, message |-> message, blacklist |-> bl,
                                        setUser |-> mw.setUser, uid |-> mw.claims.uid]
    IN  IF mw.status # 200 THEN answer(mw.status, mw.message, blacklist)
        ELSE IF mw.currentUser.type # "*model.User"
             THEN answer(500, "Failed to get current user", blacklist)
        ELSE answer(body.status, body.message, body.blacklist)

\* userService.UpdateUser: reads the row again and copies the username, the
\* email, the role and the status of updatedUser into it; the password hash
\* of updatedUser is not copied
UpdateUser(us, id, updatedUser) ==
    [us EXCEPT ![id].username = IF updatedUser.username # "" THEN updatedUser.username ELSE @,
               ![id].email = IF updatedUser.email # "" THEN updatedUser.email ELSE @,
               ![id].role = IF updatedUser.role # "" THEN updatedUser.role ELSE @,
               ![id].status = updatedUser.status]

\* userRepo.Delete: the soft delete of gorm, which sets deleted_at
DeleteUser(us, id) == [us EXCEPT ![id].deleted = TRUE]

\* UserCache.DeleteUser: DEL of the keys of the user cache, by id and by email
UserCacheDeleteUser(cu, id, fault) ==
    IF Fails(fault, "DeleteUser") THEN cu ELSE [cu EXCEPT ![id] = NoKey]

\* AuthHandler.ChangePassword behind the middleware: the answer, the user table
\* and the session cache left
ChangePassword(tokenString, oldPassword, newPassword, fault, t) ==
    LET mw == JWTAuthMiddleware(tokenString, fault, t)
        id == mw.claims.uid
        revoked == RevokeAllUserSessions(sessions, sessionIndex, id, fault)
        answer(status, message, us, ss, ix) ==
            [status |-> status, message |-> message, users |-> us, sessions |-> ss,
             sessionIndex |-> ix, setUser |-> mw.setUser, uid |-> id]
        same(status, message) == answer(status, message, users, sessions, sessionIndex)
    IN  IF mw.status # 200 THEN same(mw.status, mw.message)
        ELSE IF mw.currentUser.type # "*model.User" THEN same(500, "Failed to get current user")
        ELSE IF ~CheckPassword(id, oldPassword) THEN same(400, "Old password is incorrect")
        ELSE IF oldPassword = newPassword THEN same(400, "same password")
        ELSE answer(200, "Password changed successfully. Please login again.",
                    UpdateUser(users, id, [users[id] EXCEPT !.password = newPassword]),
                    revoked.sessions, revoked.sessionIndex)

\* GetUserSessionData at instant t: the session it returns and the cache left
\* by the goroutine that stores a rebuilt session
GetUserSessionData(userID, tenantID, claimsID, fault, order, t) ==
    LET cached == GetUserSession(sessions, userID, claimsID, fault)
        user == FindByID(userID)
        found == FindUserTenantsWithTenant(userID, order)
        tenantUsers == found.rows
        match == SelectSeq(tenantUsers, LAMBDA tu : tu.tid = tenantID)
        isGlobalAdmin == users[userID].role = UserRoleAdminSystem
        role == IF isGlobalAdmin THEN users[userID].role
                ELSE IF Len(match) > 0 THEN match[1].role ELSE ""
        sessionData == [uid |-> userID, user |-> buildUserResponse(userID, role),
                        tid |-> tenantID,
                        tname |-> IF Len(match) > 0 THEN match[1].tname ELSE "",
                        role |-> role, tenants |-> buildTenantList(tenantUsers),
                        isGlobalAdmin |-> isGlobalAdmin]
        put == SetUserSession(sessions, sessionIndex, userID, claimsID, sessionData, t, fault)
    IN  IF ~cached.err
        THEN [err |-> "", data |-> cached.data, rebuilt |-> FALSE,
              sessions |-> sessions, sessionIndex |-> sessionIndex]
        ELSE IF ~user.found
        THEN [err |-> "user not found", data |-> NoData, rebuilt |-> FALSE,
              sessions |-> sessions, sessionIndex |-> sessionIndex]
        ELSE [err |-> "", data |-> sessionData, rebuilt |-> TRUE,
              sessions |-> put.sessions, sessionIndex |-> put.sessionIndex]

----------------------------------------------------------------------------
(* Initial state *)

\* The goroutines that record a login failure at the same time
Workers == {"w1", "w2", "w3"}
CounterKeys == {"username", "clientIP"}

\* no call in progress: every worker idle; base holds the two counters as they
\* stood when the first worker started
NoCalls ==
    [pc |-> [w \in Workers |-> "idle"], key |-> [w \in Workers |-> "username"],
     seen |-> [w \in Workers |-> 0], got |-> [w \in Workers |-> 0],
     base |-> [k \in CounterKeys |-> 0]]

InitUsers ==
    (1 :> [username |-> "admin", email |-> "admin@uc", password |-> "admin-pw",
           role |-> UserRoleAdminSystem, status |-> UserStatusActive, deleted |-> FALSE])
    @@ (2 :> [username |-> "alice", email |-> "alice@uc", password |-> "alice-pw",
              role |-> UserRoleUser, status |-> UserStatusActive, deleted |-> FALSE])
    @@ (3 :> [username |-> "bob", email |-> "bob@uc", password |-> "bob-pw",
              role |-> UserRoleUser, status |-> UserStatusActive, deleted |-> FALSE])

InitMembers ==
    (<<2, 10>> :> [exists |-> TRUE, tname |-> "t10", role |-> UserRoleAdminTenant, status |-> 1,
                   tstatus |-> 1, lastLoginAt |-> 0, createdAt |-> 0])
    @@ (<<2, 20>> :> [exists |-> TRUE, tname |-> "t20", role |-> UserRoleUser, status |-> 1,
                      tstatus |-> 1, lastLoginAt |-> 0, createdAt |-> 0])

\* The id of the account of a username in the initial user table
InitUserID(name) == CHOOSE id \in UserIDs : InitUsers[id].username = name

Init ==
    /\ now = 1
    /\ users = InitUsers
    /\ members = InitMembers
    /\ loginAttempts = [u \in LoginNames |-> NoCounter]
    /\ loginLocked = [u \in LoginNames |-> NoKey]
    /\ ipAttempts = [ip \in ClientIPs |-> NoCounter]
    /\ ipLocked = [ip \in ClientIPs |-> NoKey]
    /\ sessions = [k \in SessionKeys |-> NoSession]
    /\ sessionIndex = [u \in UserIDs |-> NoIndex]
    /\ blacklist = {}
    /\ cachedUsers = [u \in UserIDs |-> NoKey]
    /\ issued = {}
    /\ fails = [u \in LoginNames |-> 0]
    /\ ticks = 0
    /\ changes = 0
    /\ inflight = NoCalls
    /\ last = [op |-> "Init"]

----------------------------------------------------------------------------
(* Operations *)

\* POST /api/v1/auth/login: IPRateLimiter around AuthHandler.Login
LoginRequest(clientIP, username, password, fault, order) ==
    \E adm \in {IPAdmission(ipAttempts[clientIP], ipLocked[clientIP], now, fault)} :
    \E h \in {HandlerLogin(username, password, fault, order, now)} :
    LET aft == IF adm.after THEN IPAfter(ipAttempts[clientIP], adm.lock, h.status, now, fault)
               ELSE [att |-> ipAttempts[clientIP], lock |-> adm.lock]
        prior == [att |-> loginAttempts[username], lock |-> loginLocked[username],
                  ipAtt |-> ipAttempts[clientIP], ipLock |-> ipLocked[clientIP],
                  fails |-> fails[username], active |-> ActiveTenants(LoginUser(username).id)]
    IN  /\ Cardinality(issued) < MaxTokens
        /\ fails[username] < MaxFails
        /\ IF adm.refused
           THEN /\ ipLocked' = [ipLocked EXCEPT ![clientIP] = adm.lock]
                /\ last' = [op |-> "Login", clientIP |-> clientIP, username |-> username,
                            password |-> password, fault |-> fault, status |-> 429,
                            message |-> "IP locked", err |-> "ip rate limited",
                            resp |-> NoResp, warmed |-> NoData, calls |-> <<>>, prior |-> prior]
                /\ UNCHANGED <<storeVars, loginAttempts, loginLocked, ipAttempts, cacheVars,
                               issued, fails>>
           ELSE /\ ipLocked' = [ipLocked EXCEPT ![clientIP] = aft.lock]
                /\ ipAttempts' = [ipAttempts EXCEPT ![clientIP] = aft.att]
                /\ loginAttempts' = [loginAttempts EXCEPT ![username] = h.svc.att]
                /\ loginLocked' = [loginLocked EXCEPT ![username] = h.svc.lock]
                /\ members' = h.svc.members
                /\ sessions' = h.svc.sessions
                /\ sessionIndex' = h.svc.sessionIndex
                /\ issued' = IF h.status = 200 THEN issued \cup {h.svc.resp.accessToken}
                             ELSE issued
                /\ fails' = [fails EXCEPT ![username] =
                                IF h.svc.err = "" THEN 0
                                ELSE IF h.svc.err = "rate limited" THEN @
                                ELSE @ + 1]
                /\ last' = [op |-> "Login", clientIP |-> clientIP, username |-> username,
                            password |-> password, fault |-> fault, status |-> h.status,
                            message |-> h.message, err |-> h.svc.err, resp |-> h.svc.resp,
                            warmed |-> h.svc.warmed, calls |-> h.svc.calls, prior |-> prior]
                /\ UNCHANGED users
        /\ UNCHANGED <<now, blacklist, cachedUsers, ticks, changes, inflight>>

\* Any request to a route behind JWTAuthMiddleware, as far as the middleware
Authenticate(tokenString, fault) ==
    \E mw \in {JWTAuthMiddleware(tokenString, fault, now)} :
        /\ cachedUsers' = IF mw.setUser THEN SetUser(cachedUsers, mw.claims.uid, now, fault)
                          ELSE cachedUsers
        /\ last' = [op |-> "Authenticate", token |-> tokenString, fault |-> fault,
                    status |-> mw.status, message |-> mw.message,
                    currentUser |-> mw.currentUser]
        /\ UNCHANGED <<now, storeVars, rateVars, cacheVars, blacklist, issued, fails, ticks,
                       changes, inflight>>

\* POST /api/v1/auth/logout
LogoutRequest(tokenString, fault) ==
    \E r \in {Logout(tokenString, fault, now)} :
        /\ blacklist' = r.blacklist
        /\ cachedUsers' = IF r.setUser THEN SetUser(cachedUsers, r.uid, now, fault)
                          ELSE cachedUsers
        /\ last' = [op |-> "Logout", token |-> tokenString, fault |-> fault,
                    status |-> r.status, message |-> r.message,
                    valid |-> ~ParseAccessToken(tokenString, now).err]
        /\ UNCHANGED <<now, storeVars, rateVars, cacheVars, issued, fails, ticks,
                       changes, inflight>>

\* POST /api/v1/auth/change-password
ChangePasswordRequest(tokenString, oldPassword, newPassword, fault) ==
    \E r \in {ChangePassword(tokenString, oldPassword, newPassword, fault, now)} :
        /\ users' = r.users
        /\ sessions' = r.sessions
        /\ sessionIndex' = r.sessionIndex
        /\ cachedUsers' = IF r.setUser THEN SetUser(cachedUsers, r.uid, now, fault)
                          ELSE cachedUsers
        /\ last' = [op |-> "ChangePassword", token |-> tokenString, fault |-> fault,
                    status |-> r.status, message |-> r.message,
                    valid |-> /\ ~ParseAccessToken(tokenString, now).err
                              /\ FindByID(tokenString.claims.uid).found
                              /\ CheckPassword(tokenString.claims.uid, oldPassword)
                              /\ oldPassword # newPassword]
        /\ UNCHANGED <<now, members, rateVars, blacklist, issued, fails, ticks, changes, inflight>>

\* authService.GetUserSessionData for the claims of a parsed token
ResolveSession(tokenString, fault, order) ==
    \E claims \in {ParseAccessToken(tokenString, now).claims} :
    \E r \in {GetUserSessionData(claims.uid, claims.tid, claims.jti, fault, order, now)} :
        /\ ~ParseAccessToken(tokenString, now).err
        /\ sessions' = r.sessions
        /\ sessionIndex' = r.sessionIndex
        /\ last' = [op |-> "GetUserSessionData", token |-> tokenString, fault |-> fault,
                    err |-> r.err, data |-> r.data, rebuilt |-> r.rebuilt]
        /\ UNCHANGED <<now, storeVars, rateVars, blacklist, cachedUsers, issued, fails, ticks,
                       changes, inflight>>

\* The session cache called directly
PutSession(userID, sessionID, fault) ==
    LET data == [uid |-> userID, user |-> buildUserResponse(userID, users[userID].role),
                 tid |-> AdminTenantID, tname |-> "", role |-> users[userID].role,
                 tenants |-> <<>>, isGlobalAdmin |-> FALSE]
    IN  \E r \in {SetUserSession(sessions, sessionIndex, userID, sessionID, data, now, fault)} :
        /\ sessions' = r.sessions
        /\ sessionIndex' = r.sessionIndex
        /\ last' = [op |-> "SetUserSession", uid |-> userID, sid |-> sessionID,
                    fault |-> fault, err |-> r.err]
        /\ UNCHANGED <<now, storeVars, rateVars, blacklist, cachedUsers, issued, fails, ticks,
                       changes, inflight>>

GetSession(userID, sessionID, fault) ==
    \E r \in {GetUserSession(sessions, userID, sessionID, fault)} :
        /\ last' = [op |-> "GetUserSession", uid |-> userID, sid |-> sessionID,
                    fault |-> fault, err |-> r.err, data |-> r.data]
        /\ UNCHANGED <<now, storeVars, rateVars, cacheVars, blacklist, cachedUsers, issued,
                       fails, ticks, changes, inflight>>

DeleteSession(userID, sessionID, fault) ==
    \E r \in {DeleteUserSession(sessions, sessionIndex, userID, sessionID, fault)} :
        /\ sessions' = r.sessions
        /\ sessionIndex' = r.sessionIndex
        /\ last' = [op |-> "DeleteUserSession", uid |-> userID, sid |-> sessionID,
                    fault |-> fault, err |-> r.err]
        /\ UNCHANGED <<now, storeVars, rateVars, blacklist, cachedUsers, issued, fails, ticks,
                       changes, inflight>>

InvalidateAll(userID, fault) ==
    \E r \in {RevokeAllUserSessions(sessions, sessionIndex, userID, fault)} :
        /\ sessions' = r.sessions
        /\ sessionIndex' = r.sessionIndex
        /\ last' = [op |-> "RevokeAllUserSessions", uid |-> userID, fault |-> fault,
                    err |-> r.err, before |-> {k \in SessionKeys : sessions[k] # NoSession}]
        /\ UNCHANGED <<now, storeVars, rateVars, blacklist, cachedUsers, issued, fails, ticks,
                       changes, inflight>>

\* A change of a membership row made in the Record Store by its other writers
StoreChange(userID, tenantID, kind) ==
    LET m == members[<<userID, tenantID>>]
    IN  /\ changes < MaxChanges
        /\ changes' = changes + 1
        /\ members' = [members EXCEPT ![<<userID, tenantID>>] =
                          IF kind = "status" THEN [m EXCEPT !.status = 1 - m.status]
                          ELSE [m EXCEPT !.role = IF m.role = UserRoleUser
                                                  THEN UserRoleAdminTenant ELSE UserRoleUser]]
        /\ last' = [op |-> "StoreChange", uid |-> userID, tid |-> tenantID, kind |-> kind]
        /\ UNCHANGED <<now, users, rateVars, cacheVars, blacklist, cachedUsers, issued, fails,
                       ticks, inflight>>

\* JWTUtil.GenerateAccessToken called with the inputs given
IssueToken(userID, tenantID, role) ==
    \E gen \in {GenerateAccessToken(userID, tenantID, role, now)} :
        /\ Cardinality(issued) < MaxTokens
        /\ issued' = issued \cup {gen.accessToken}
        /\ last' = [op |-> "GenerateAccessToken", userID |-> userID, tenantID |-> tenantID,
                    role |-> role, claimsID |-> gen.claimsID, token |-> gen.accessToken,
                    expiresAt |-> gen.expiresAt]
        /\ UNCHANGED <<now, storeVars, rateVars, cacheVars, blacklist, cachedUsers, fails, ticks,
                       changes, inflight>>

\* JWTUtil.ParseAccessToken called on a token string
ParseToken(tokenString) ==
    \E parsed \in {ParseAccessToken(tokenString, now)} :
        /\ last' = [op |-> "ParseAccessToken", token |-> tokenString, at |-> now,
                    err |-> parsed.err, claims |-> IF parsed.err THEN NoClaims ELSE parsed.claims]
        /\ UNCHANGED <<now, storeVars, rateVars, cacheVars, blacklist, cachedUsers, issued, fails,
                       ticks, changes, inflight>>

\* authService.selectDefaultTenant called on a list of memberships
SelectDefault(tenantUsers) ==
    /\ last' = [op |-> "selectDefaultTenant", tenantUsers |-> tenantUsers,
                selected |-> selectDefaultTenant(tenantUsers)]
    /\ UNCHANGED <<now, storeVars, rateVars, cacheVars, blacklist, cachedUsers, issued, fails,
                   ticks, changes, inflight>>

\* The counter a worker increments
ConcurrentName == "alice"
ConcurrentIP == "ip1"
CounterOf(key) ==
    IF key = "username" THEN loginAttempts[ConcurrentName] ELSE ipAttempts[ConcurrentIP]

\* A failed login reaches recordLoginFailure, or the address limiter its
\* IncrementClientIPLoginAttempts, in the goroutine w of its request
StartIncrement(w, key) ==
    /\ inflight.pc[w] = "idle"
    /\ inflight' = [inflight EXCEPT
                        !.pc[w] = "Incr", !.key[w] = key, !.seen[w] = CounterOf(key).n,
                        !.base = IF \A v \in Workers : inflight.pc[v] = "idle"
                                 THEN [k \in CounterKeys |-> CounterOf(k).n] ELSE @]
    /\ last' = [op |-> "StartIncrement", worker |-> w, key |-> key]
    /\ UNCHANGED <<now, storeVars, rateVars, cacheVars, blacklist, cachedUsers, issued, fails,
                   ticks, changes>>

\* IncrementLoginAttempts / IncrementClientIPLoginAttempts of worker w: its INCR
IncrStep(w) ==
    \E c \in {RedisIncr(CounterOf(inflight.key[w]), inflight.seen[w])} :
        /\ inflight.pc[w] = "Incr"
        /\ IF inflight.key[w] = "username"
           THEN /\ loginAttempts' = [loginAttempts EXCEPT ![ConcurrentName] = c]
                /\ UNCHANGED ipAttempts
           ELSE /\ ipAttempts' = [ipAttempts EXCEPT ![ConcurrentIP] = c]
                /\ UNCHANGED loginAttempts
        /\ inflight' = [inflight EXCEPT !.pc[w] = "Expire", !.got[w] = c.n]
        /\ last' = [op |-> "Incr", worker |-> w, key |-> inflight.key[w], count |-> c.n]
        /\ UNCHANGED <<now, storeVars, loginLocked, ipLocked, cacheVars, blacklist, cachedUsers,
                       issued, fails, ticks, changes>>

\* IncrementLoginAttempts / IncrementClientIPLoginAttempts of worker w: its
\* EXPIRE, after which it returns the count its INCR gave
ExpireStep(w) ==
    /\ inflight.pc[w] = "Expire"
    /\ IF inflight.key[w] = "username"
       THEN /\ loginAttempts' = [loginAttempts EXCEPT ![ConcurrentName] =
                                    Expire(@, now, usernameRateLimitWindowSize)]
            /\ UNCHANGED ipAttempts
       ELSE /\ ipAttempts' = [ipAttempts EXCEPT ![ConcurrentIP] =
                                 Expire(@, now, IPWindowDuration)]
            /\ UNCHANGED loginAttempts
    /\ inflight' = [inflight EXCEPT !.pc[w] = "done"]
    /\ last' = [op |-> "Expire", worker |-> w, key |-> inflight.key[w],
                count |-> inflight.got[w]]
    /\ UNCHANGED <<now, storeVars, loginLocked, ipLocked, cacheVars, blacklist, cachedUsers,
                   issued, fails, ticks, changes>>

\* Login in the goroutine w of its request, first statement: checkUsernameRateLimit
\* on the counter and the lock as they are now
CheckStep(w) ==
    \E r \in {checkUsernameRateLimit(loginAttempts[ConcurrentName],
                                     loginLocked[ConcurrentName], now, "none")} :
        /\ inflight.pc[w] = "idle"
        /\ loginLocked' = [loginLocked EXCEPT ![ConcurrentName] = r.lock]
        /\ inflight' = [inflight EXCEPT
                            !.pc[w] = IF r.refused THEN "refused" ELSE "admitted",
                            !.key[w] = "username", !.seen[w] = CounterOf("username").n,
                            !.base = IF \A v \in Workers : inflight.pc[v] = "idle"
                                     THEN [k \in CounterKeys |-> CounterOf(k).n] ELSE @]
        /\ last' = [op |-> "Check", worker |-> w, refused |-> r.refused]
        /\ UNCHANGED <<now, storeVars, loginAttempts, ipAttempts, ipLocked, cacheVars, blacklist,
                       cachedUsers, issued, fails, ticks, changes>>

\* Login in the goroutine w, after its check admitted it: the user is looked
\* up, the password is verified and, being wrong, recordLoginFailure runs
VerifyStep(w, password) ==
    \E user \in {LoginUser(ConcurrentName)} :
        /\ inflight.pc[w] = "admitted"
        /\ ~(user.found /\ CheckPassword(user.id, password))
        /\ loginAttempts' = [loginAttempts EXCEPT ![ConcurrentName] =
                                 recordLoginFailure(@, now, "none")]
        /\ inflight' = [inflight EXCEPT !.pc[w] = "verified",
                                        !.got[w] = loginAttempts'[ConcurrentName].n]
        /\ last' = [op |-> "Verify", worker |-> w, password |-> password,
                    count |-> loginAttempts'[ConcurrentName].n]
        /\ UNCHANGED <<now, storeVars, loginLocked, ipAttempts, ipLocked, cacheVars, blacklist,
                       cachedUsers, issued, fails, ticks, changes>>

\* POST /users/update setting the status of an account: the handler loads the
\* account, puts the status of the request into it and calls
\* userService.UpdateUser, which saves the row and clears the user cache
UpdateUserRequest(id, status, fault) ==
    \E found \in {FindByID(id).found} :
        /\ users' = IF found THEN UpdateUser(users, id, [users[id] EXCEPT !.status = status])
                    ELSE users
        /\ cachedUsers' = IF found THEN UserCacheDeleteUser(cachedUsers, id, fault)
                          ELSE cachedUsers
        /\ last' = [op |-> "UpdateUser", id |-> id, status |-> status, found |-> found]
        /\ UNCHANGED <<now, members, rateVars, cacheVars, blacklist, issued, fails, ticks,
                       changes, inflight>>

\* POST /users/delete: userService.DeleteUser deletes the row and clears the
\* user cache
DeleteUserRequest(id, fault) ==
    \E found \in {FindByID(id).found} :
        /\ users' = IF found THEN DeleteUser(users, id) ELSE users
        /\ cachedUsers' = IF found THEN UserCacheDeleteUser(cachedUsers, id, fault)
                          ELSE cachedUsers
        /\ last' = [op |-> "DeleteUser", id |-> id, found |-> found]
        /\ UNCHANGED <<now, members, rateVars, cacheVars, blacklist, issued, fails, ticks,
                       changes, inflight>>

\* A call of AuthCache.AddToBlacklistByTokenString (by = "hash") or
\* AuthCache.AddToBlacklistByTokenID (by = "id") for a token
AddToBlacklist(by, tokenString, ttl) ==
    /\ blacklist' = IF by = "hash"
                    THEN AddToBlacklistByTokenString(blacklist, tokenString, ttl, now)
                    ELSE AddToBlacklistByTokenID(blacklist, tokenString, ttl, now)
    /\ last' = [op |-> "AddToBlacklist", by |-> by, token |-> tokenString,
                prior |-> [blacklist |-> blacklist]]
    /\ UNCHANGED <<now, storeVars, rateVars, cacheVars, cachedUsers, issued, fails, ticks,
                   changes, inflight>>

\* The clock advances by step seconds; Redis drops the keys whose TTL has run out
Tick(step) ==
    /\ ticks < MaxTicks
    /\ ticks' = ticks + 1
    /\ now' = now + step
    /\ loginAttempts' = [u \in LoginNames |-> PurgeCounter(loginAttempts[u], now')]
    /\ loginLocked' = [u \in LoginNames |-> PurgeFlag(loginLocked[u], now')]
    /\ ipAttempts' = [ip \in ClientIPs |-> PurgeCounter(ipAttempts[ip], now')]
    /\ ipLocked' = [ip \in ClientIPs |-> PurgeFlag(ipLocked[ip], now')]
    /\ sessions' = PurgeSessions(sessions, now')
    /\ sessionIndex' = PurgeIndex(sessionIndex, now')
    /\ blacklist' = {e \in blacklist : Alive(e.exp, now')}
    /\ cachedUsers' = [u \in UserIDs |-> PurgeFlag(cachedUsers[u], now')]
    /\ last' = [op |-> "Tick", step |-> step]
    /\ UNCHANGED <<storeVars, issued, fails, changes, inflight>>

----------------------------------------------------------------------------
(* Specifications *)

GoodLogins == {<<"admin", "admin-pw">>, <<"alice", "alice-pw">>}
SessionSteps == {1, defaultSessionTTL, jwtExpiresIn}

LoginOK ==
    \E cred \in GoodLogins :
        \E order \in Orderings(ActiveTenants(LoginUser(cred[1]).id)) :
            LoginRequest("ip1", cred[1], cred[2], "none", order)
AuthenticateAny == \E tok \in issued : Authenticate(tok, "none")
LogoutAny == \E tok \in issued : LogoutRequest(tok, "none")
ChangePasswordAny ==
    \E tok \in issued : \E old \in {"alice-pw", "admin-pw"} :
        ChangePasswordRequest(tok, old, "new-pw", "none")
ResolveAny ==
    \E tok \in issued :
        \E order \in Orderings(ActiveTenants(tok.claims.uid)) : ResolveSession(tok, "none", order)
StoreChangeAny ==
    \E k \in MemberKeys : \E kind \in {"status", "role"} : StoreChange(k[1], k[2], kind)
TickSession == \E step \in SessionSteps : Tick(step)

Next ==
    \/ LoginOK
    \/ AuthenticateAny
    \/ LogoutAny
    \/ ChangePasswordAny
    \/ ResolveAny
    \/ StoreChangeAny
    \/ TickSession

Spec == Init /\ [][Next]_vars

\* The login route alone: right and wrong passwords, and the cache calls of
\* the rate limiters failing
RateNames == {"alice"}
RatePasswords == {"alice-pw", "bad"}
RateFaults == {"none", "GetLoginAttempts", "UnlockAccount", "UnlockClientIP"}
RateSteps == {usernameRateLimitWindowSize, usernameRateLimitLockDuration}

LoginAny ==
    \E u \in RateNames : \E p \in RatePasswords : \E fault \in RateFaults :
        \E order \in Orderings(ActiveTenants(LoginUser(u).id)) :
            LoginRequest("ip1", u, p, fault, order)
TickRate == \E step \in RateSteps : Tick(step)

NextRate ==
    \/ LoginAny
    \/ TickRate

SpecRate == Init /\ [][NextRate]_vars

\* Failing logins alone: a name of an account with a wrong password, and a
\* name of no account
UniformNames == {"alice", "ghost"}

LoginBad ==
    \E u \in UniformNames :
        \E order \in Orderings(ActiveTenants(LoginUser(u).id)) :
            LoginRequest("ip1", u, "bad", "none", order)
TickWindow == Tick(usernameRateLimitWindowSize)

NextUniform ==
    \/ LoginBad
    \/ TickWindow

SpecUniform == Init /\ [][NextUniform]_vars

\* The session cache alone, with its calls to Redis failing
CacheFaults == {"none", "SAdd", "ExpireIndex", "Del"}
CacheIDs == {"s1", "s2"}
CacheSteps == {sessionIndexExtra, defaultSessionTTL}

PutAny == \E id \in CacheIDs : \E fault \in CacheFaults : PutSession(2, id, fault)
GetAny == \E id \in CacheIDs : GetSession(2, id, "none")
DeleteAny == \E id \in CacheIDs : \E fault \in CacheFaults : DeleteSession(2, id, fault)
InvalidateAny == \E fault \in CacheFaults : InvalidateAll(2, fault)
TickCache == \E step \in CacheSteps : Tick(step)

NextCache ==
    \/ PutAny
    \/ GetAny
    \/ DeleteAny
    \/ InvalidateAny
    \/ TickCache

SpecCache == Init /\ [][NextCache]_vars

\* The token lifecycle: tokens issued for any inputs and by logins, presented
\* as issued, signed with another key, or with their expiry rewritten
OtherKey == "other"
IssueUsers == {1, 2}
IssueTenants == {0, 10}
IssueRoles == {UserRoleUser, UserRoleAdminSystem}
TokenSteps == {jwtExpiresIn - 1, jwtExpiresIn}

Forgeries(tok) ==
    {[tok EXCEPT !.sig = SignedString(tok.claims, OtherKey)],
     [tok EXCEPT !.claims.exp = @ + jwtExpiresIn]}
Presented == issued \cup UNION {Forgeries(tok) : tok \in issued}

IssueAny ==
    \E userID \in IssueUsers : \E tenantID \in IssueTenants : \E role \in IssueRoles :
        IssueToken(userID, tenantID, role)
ParseAny == \E tok \in Presented : ParseToken(tok)
AuthenticatePresented == \E tok \in Presented : Authenticate(tok, "none")
TickToken == \E step \in TokenSteps : Tick(step)

NextToken ==
    \/ LoginOK
    \/ IssueAny
    \/ ParseAny
    \/ AuthenticatePresented
    \/ TickToken

SpecToken == Init /\ [][NextToken]_vars

\* Requests whose bearer token is any string: the tokens of logins, their
\* forgeries, and strings that are no token at all, of a length below, at and
\* above the ten bytes GenerateTokenIDFromToken slices off (the empty string,
\* which "Bearer " followed by nothing gives, included)
MalformedLengths == {0, 3, 9, 10, 11, 40}
MalformedHeads == {"x", JWTHeader10}
Malformed ==
    {[head |-> h, len |-> n, claims |-> NoClaims, sig |-> NoToken.sig] :
        h \in MalformedHeads, n \in MalformedLengths}
Bearers == Presented \cup Malformed

AuthenticateBearer == \E tok \in Bearers : Authenticate(tok, "none")

NextBearer ==
    \/ LoginOK
    \/ AuthenticateBearer
    \/ TickToken

SpecBearer == Init /\ [][NextBearer]_vars

\* The blacklist of the cache layer: tokens of logins, revoked under the hash
\* of the token or under its token id
BlacklistWays == {"hash", "id"}

AddToBlacklistAny ==
    \E by \in BlacklistWays : \E tok \in issued : AddToBlacklist(by, tok, jwtExpiresIn)

NextBlacklist ==
    \/ LoginOK
    \/ AddToBlacklistAny
    \/ AuthenticateAny
    \/ TickToken

SpecBlacklist == Init /\ [][NextBlacklist]_vars

\* One account disabled, enabled again and deleted between its logins and the
\* requests made with its tokens, the sessions running out in between
AccountName == "alice"
AccountStatuses == {UserStatusInactive, UserStatusActive}

LoginAccount ==
    \E order \in Orderings(ActiveTenants(LoginUser(AccountName).id)) :
        LoginRequest("ip1", AccountName, "alice-pw", "none", order)
UpdateUserAny ==
    \E status \in AccountStatuses : UpdateUserRequest(InitUserID(AccountName), status, "none")
DeleteUserAny == DeleteUserRequest(InitUserID(AccountName), "none")
TickAccount == Tick(defaultSessionTTL)

NextAccounts ==
    \/ LoginAccount
    \/ UpdateUserAny
    \/ DeleteUserAny
    \/ AuthenticateAny
    \/ TickAccount

SpecAccounts == Init /\ [][NextAccounts]_vars

\* The tenant resolver alone, on every list of at most MaxMemberships
\* memberships of different tenants
MaxMemberships == 3
ResolverTenants == {10, 20, 30}
ResolverRoles == {UserRoleAdminTenant, UserRoleUser}
LoginTimes == {0, 100, 200}
CreationTimes == {2, 5}

MemberRows ==
    [tid : ResolverTenants, tname : {""}, role : ResolverRoles,
     lastLoginAt : LoginTimes, createdAt : CreationTimes]
MemberLists ==
    {s \in UNION {[1..n -> MemberRows] : n \in 0..MaxMemberships} :
        \A i, j \in DOMAIN s : i # j => s[i].tid # s[j].tid}

\* one call per behaviour: the function reads nothing that a call changes
SelectAny == last.op = "Init" /\ \E tenantUsers \in MemberLists : SelectDefault(tenantUsers)

NextResolver == SelectAny

SpecResolver == Init /\ [][NextResolver]_vars

\* The login route with the reads of the two admission checks failing
OpenFaults == {"none", "IsAccountLocked", "TTL", "GetLoginAttempts",
               "IsClientIPLocked", "GetClientIPLoginAttempts"}

LoginOpen ==
    \E p \in RatePasswords : \E fault \in OpenFaults :
        \E order \in Orderings(ActiveTenants(LoginUser("alice").id)) :
            LoginRequest("ip1", "alice", p, fault, order)
TickOpen == Tick(usernameRateLimitWindowSize)

NextOpen ==
    \/ LoginOpen
    \/ TickOpen

SpecOpen == Init /\ [][NextOpen]_vars

\* The routes served while calls to the cache fail
AbsorbFaults == {"none", "all", "GetJSON", "SetJSON", "SetBlacklist"}

LoginFaulty ==
    \E fault \in AbsorbFaults :
        \E order \in Orderings(ActiveTenants(LoginUser("alice").id)) :
            LoginRequest("ip1", "alice", "alice-pw", fault, order)
AuthenticateFaulty == \E tok \in issued : \E fault \in AbsorbFaults : Authenticate(tok, fault)
LogoutFaulty == \E tok \in issued : \E fault \in AbsorbFaults : LogoutRequest(tok, fault)
ChangePasswordFaulty ==
    \E tok \in issued : \E fault \in AbsorbFaults :
        ChangePasswordRequest(tok, "alice-pw", "new-pw", fault)
ResolveFaulty ==
    \E tok \in issued : \E fault \in AbsorbFaults :
        \E order \in Orderings(ActiveTenants(tok.claims.uid)) : ResolveSession(tok, fault, order)
TickAbsorb == Tick(defaultSessionTTL)

NextAbsorb ==
    \/ LoginFaulty
    \/ AuthenticateFaulty
    \/ LogoutFaulty
    \/ ChangePasswordFaulty
    \/ ResolveFaulty
    \/ TickAbsorb

SpecAbsorb == Init /\ [][NextAbsorb]_vars

\* The login route for an account with memberships and one without, with
\* the Record Store failing
RejectLogins == {<<"alice", "alice-pw">>, <<"bob", "bob-pw">>}
StoreFaults == {"none", "store"}

LoginReject ==
    \E cred \in RejectLogins : \E fault \in StoreFaults :
        \E order \in Orderings(ActiveTenants(LoginUser(cred[1]).id)) :
            LoginRequest("ip1", cred[1], cred[2], fault, order)

NextReject ==
    \/ LoginReject
    \/ TickWindow

SpecReject == Init /\ [][NextReject]_vars

\* Logins of the system administrator, holding no, one or two memberships
AdminPasswords == {"admin-pw", "bad"}
AdminSteps == {1, usernameRateLimitWindowSize}

AdminMembers(S) ==
    [k \in {1} \X S |->
        [exists |-> TRUE, tname |-> IF k[2] = 10 THEN "t10" ELSE "t20",
         role |-> UserRoleAdminTenant, status |-> 1, tstatus |-> 1, lastLoginAt |-> 0,
         createdAt |-> 0]]

InitAdmin ==
    /\ now = 1
    /\ users = InitUsers
    /\ members \in {InitMembers @@ AdminMembers(S) : S \in SUBSET TenantIDs}
    /\ loginAttempts = [u \in LoginNames |-> NoCounter]
    /\ loginLocked = [u \in LoginNames |-> NoKey]
    /\ ipAttempts = [ip \in ClientIPs |-> NoCounter]
    /\ ipLocked = [ip \in ClientIPs |-> NoKey]
    /\ sessions = [k \in SessionKeys |-> NoSession]
    /\ sessionIndex = [u \in UserIDs |-> NoIndex]
    /\ blacklist = {}
    /\ cachedUsers = [u \in UserIDs |-> NoKey]
    /\ issued = {}
    /\ fails = [u \in LoginNames |-> 0]
    /\ ticks = 0
    /\ changes = 0
    /\ inflight = NoCalls
    /\ last = [op |-> "Init"]

LoginAdmin == \E p \in AdminPasswords : LoginRequest("ip1", "admin", p, "none", <<>>)
TickAdmin == \E step \in AdminSteps : Tick(step)

NextAdmin ==
    \/ LoginAdmin
    \/ AuthenticateAny
    \/ TickAdmin

SpecAdmin == InitAdmin /\ [][NextAdmin]_vars

\* Login failures recorded at the same time, after failures recorded one by one
FailBefore ==
    /\ \A w \in Workers : inflight.pc[w] = "idle"
    /\ \E order \in Orderings(ActiveTenants(LoginUser(ConcurrentName).id)) :
           LoginRequest(ConcurrentIP, ConcurrentName, "bad", "none", order)
StartAny == \E w \in Workers : \E key \in CounterKeys : StartIncrement(w, key)
IncrAny == \E w \in Workers : IncrStep(w)
ExpireAny == \E w \in Workers : ExpireStep(w)
TickSecond == Tick(1)

NextConcurrent ==
    \/ FailBefore
    \/ StartAny
    \/ IncrAny
    \/ ExpireAny
    \/ TickSecond

SpecConcurrent == Init /\ [][NextConcurrent]_vars

\* Logins of one username with a wrong password served at the same time, each
\* as its check followed by its verification, after logins served one by one
CheckAny == \E w \in Workers : CheckStep(w)
VerifyAny == \E w \in Workers : VerifyStep(w, "bad")

NextRace ==
    \/ FailBefore
    \/ CheckAny
    \/ VerifyAny
    \/ TickSecond

SpecRace == Init /\ [][NextRace]_vars

\* Failed logins of one username at the first instant, some with the EXPIRE of
\* the failure counter failing; later, when the lock duration has passed
\* once or twice, logins with the right password and the cache available
LockoutFaults == {"none", "Expire"}
LockoutPasswords == {"alice-pw", "bad"}

FailFirst ==
    /\ ticks = 0
    /\ \E p \in LockoutPasswords : \E fault \in LockoutFaults :
           \E order \in Orderings(ActiveTenants(LoginUser("alice").id)) :
               LoginRequest("ip1", "alice", p, fault, order)
RetryLater ==
    /\ ticks > 0
    /\ \E order \in Orderings(ActiveTenants(LoginUser("alice").id)) :
           LoginRequest("ip1", "alice", "alice-pw", "none", order)
TickLock == Tick(usernameRateLimitLockDuration)

NextLockout ==
    \/ FailFirst
    \/ RetryLater
    \/ TickLock

SpecLockout == Init /\ [][NextLockout]_vars

----------------------------------------------------------------------------
(* Claims *)

ReadFaults == {"IsAccountLocked", "GetLoginAttempts", "TTL", "all"}
ClearFaults == {"UnlockAccount", "UnlockClientIP", "IsClientIPLocked",
                "GetClientIPLoginAttempts", "TTL", "all"}
Refusals == {"rate limited", "ip rate limited"}

\* C1: once a logout request that presents a validly signed, unexpired
\* credential has been served, the request authentication that follows
\* rejects that credential.
C1_LogoutRevokes ==
    [][(/\ last.op = "Logout" /\ last.valid
        /\ last'.op = "Authenticate" /\ last'.token = last.token)
       => last'.status = 401]_vars

C3_InvalidateAllLeavesNoSession ==
    (last.op = "RevokeAllUserSessions" /\ ~last.err)
    => \A id \in SessionIDs : GetUserSession(sessions, last.uid, id, "none").err

\* C4: once a change-password request of an authenticated account with the
\* right old password has been served, the request authentication that
\* follows rejects every credential issued to that account before.
C4_ChangePasswordLogsOut ==
    [][(/\ last.op = "ChangePassword" /\ last.valid
        /\ last'.op = "Authenticate" /\ last'.token \in issued
        /\ last'.token.claims.uid = last.token.claims.uid)
       => last'.status = 401]_vars

\* C5: two different credentials handed out by logins never share a session
\* entry: their keys (account id, credential id) differ.
C5_IndependentSessions ==
    \A t1, t2 \in issued :
        t1 # t2 => <<t1.claims.uid, t1.claims.jti>> # <<t2.claims.uid, t2.claims.jti>>

\* C6: a session that resolving a credential yields, from the cache or
\* rebuilt, carries the account id, tenant id and role of the credential's claims.
C6_SessionMatchesClaims ==
    /\ (last.op = "GetUserSessionData" /\ last.err = "")
       => /\ last.data.uid = last.token.claims.uid
          /\ last.data.tid = last.token.claims.tid
          /\ last.data.role = last.token.claims.role
    /\ (last.op = "Authenticate" /\ last.status = 200 /\ ~last.currentUser.isNil)
       => /\ last.currentUser.data.uid = last.token.claims.uid
          /\ last.currentUser.data.tid = last.token.claims.tid
          /\ last.currentUser.data.role = last.token.claims.role

\* a session whose tenant is the administrators' tenant id, or one of the
\* account's active memberships
TenantInMemberships(data) ==
    \/ data.isGlobalAdmin /\ data.tid = AdminTenantID
    \/ data.tid \in ActiveTenants(data.uid)

\* C7: every session in the cache, and every session a resolution returns,
\* has a tenant that is one of the account's active memberships, or the
\* administrators' tenant id for a global administrator.
C7_SessionTenantActive ==
    /\ \A k \in SessionKeys : sessions[k] # NoSession => TenantInMemberships(sessions[k].data)
    /\ (last.op = "GetUserSessionData" /\ last.err = "") => TenantInMemberships(last.data)

\* C8: a successful login of an account that is no global administrator and
\* has an active membership puts one of the memberships active at the login
\* into the credential, the response and the warmed session.
C8_LoginTenantIsMember ==
    (/\ last.op = "Login" /\ last.status = 200
     /\ last.resp.user.role # UserRoleAdminSystem
     /\ last.prior.active # {})
    => /\ last.resp.accessToken.claims.tid \in last.prior.active
       /\ last.resp.currentTenant.tid \in last.prior.active
       /\ last.warmed.tid \in last.prior.active

\* a successful login of an account with two active memberships
C8_Witness ==
    /\ last.op = "Login" /\ last.status = 200
    /\ last.username = "alice"
    /\ Cardinality(last.prior.active) = 2
    /\ last.warmed.tid \in last.prior.active

\* the rate-limit keys left for the name and the address of the last login
KeysCleared ==
    /\ loginAttempts[last.username] = NoCounter
    /\ loginLocked[last.username] = NoKey
    /\ ipAttempts[last.clientIP] = NoCounter
    /\ ipLocked[last.clientIP] = NoKey

C10_UniformFailure ==
    \A fault \in {"none", "Incr", "Expire", "GetLoginAttempts"} :
        LET a == HandlerLogin("ghost", "bad", fault, <<>>, now)
            b == HandlerLogin("alice", "bad", fault, <<10, 20>>, now)
        IN  (/\ ~LoginUser("ghost").found
             /\ LoginUser("alice").found
             /\ loginAttempts["ghost"] = loginAttempts["alice"]
             /\ loginLocked["ghost"] = loginLocked["alice"])
            => /\ a.status = b.status
               /\ a.message = b.message
               /\ a.svc.err = b.svc.err
               /\ a.svc.resp = b.svc.resp
               /\ a.svc.att = b.svc.att
               /\ a.svc.lock = b.svc.lock

\* a failed login with the name of no account, made while both keys hold the
\* same failures
C10_Witness ==
    /\ last.op = "Login" /\ last.username = "ghost"
    /\ last.err = "invalid credentials"
    /\ last.prior.att = loginAttempts["alice"]
    /\ last.prior.att.n > 0
    /\ last.prior.lock = loginLocked["alice"]

WithSession(ss, tok) ==
    IF <<tok.claims.uid, tok.claims.jti>> \in SessionKeys
    THEN [ss EXCEPT ![<<tok.claims.uid, tok.claims.jti>>] =
              [exp |-> NoExpiry, data |-> [uid |-> tok.claims.uid]]]
    ELSE ss

\* C12: a request that presents a token whose expiry is reached is answered
\* 401 and gets no session, whether the token is signed with the secret key
\* or not, whether a session is cached under its key or not, and whether its
\* blacklist key exists or not.
C12_ExpiredRejected ==
    /\ \A tok \in Presented :
          now >= tok.claims.exp =>
            \A bl \in {blacklist, BlacklistSet(blacklist, BlacklistKeyByTokenID(tok), NoExpiry)} :
            \A ss \in {sessions, WithSession(sessions, tok)} :
            \A fault \in {"none", "GetBlacklist", "GetJSON"} :
                LET mw == JWTAuthMiddlewareOn(bl, ss, tok, fault, now)
                IN  mw.status = 401 /\ mw.currentUser.isNil
    /\ (last.op = "Authenticate" /\ now >= last.token.claims.exp)
       => (last.status = 401 /\ last.currentUser.isNil)

\* an expired token signed with the secret key is refused while a session is
\* cached under its key
C12_Witness ==
    /\ last.op = "Authenticate" /\ last.status = 401
    /\ last.token \in issued
    /\ now >= last.token.claims.exp
    /\ sessions[<<last.token.claims.uid, last.token.claims.jti>>] # NoSession

\* the lists that hold the rows of a list in another order
Reorderings(s) == {[i \in DOMAIN s |-> s[o[i]]] : o \in Orderings(DOMAIN s)}

\* C13: selectDefaultTenant returns the same membership for every order in
\* which the same memberships are listed.
C13_SameForEveryOrder ==
    last.op = "selectDefaultTenant"
    => \A other \in Reorderings(last.tenantUsers) :
           selectDefaultTenant(other) = last.selected

\* the rows of a list, and the subset the algorithm chooses from
RowsOf(s) == {s[i] : i \in DOMAIN s}
Chosen(s) ==
    IF \E r \in RowsOf(s) : r.role = UserRoleAdminTenant
    THEN {r \in RowsOf(s) : r.role = UserRoleAdminTenant}
    ELSE {r \in RowsOf(s) : r.role = UserRoleUser}

\* what the algorithm prescribes for a list and a result
Prescribed(s, r) ==
    IF Len(s) = 0 THEN r = NoTenant
    ELSE IF Len(s) = 1 THEN r = s[1]
    ELSE /\ r \in Chosen(s)
         /\ IF \E x \in Chosen(s) : x.lastLoginAt # 0
            THEN /\ r.lastLoginAt # 0
                 /\ \A x \in Chosen(s) : x.lastLoginAt <= r.lastLoginAt
            ELSE \A x \in Chosen(s) : r.createdAt <= x.createdAt

\* C14: selectDefaultTenant returns none for the empty list, the only element
\* of a singleton, and otherwise, among the tenant_admin memberships if there
\* is one and else among the others, the membership with the greatest
\* non-zero lastLoginAt, or the one with the least createdAt when none has
\* logged in.
C14_SelectsAsPrescribed ==
    last.op = "selectDefaultTenant" => Prescribed(last.tenantUsers, last.selected)

\* a tenant_admin membership never logged into is selected before a regular
\* one that was used
C14_Witness ==
    /\ last.op = "selectDefaultTenant"
    /\ last.tenantUsers =
           <<[tid |-> 10, tname |-> "", role |-> UserRoleUser, lastLoginAt |-> 100,
              createdAt |-> 2],
             [tid |-> 20, tname |-> "", role |-> UserRoleAdminTenant, lastLoginAt |-> 0,
              createdAt |-> 5]>>
    /\ last.selected.tid = 20

\* the reads of the admission checks that the last login made and that failed
UsernameReadFailed ==
    \/ last.fault = "IsAccountLocked"
    \/ last.fault = "TTL" /\ last.prior.lock # NoKey
    \/ last.fault = "GetLoginAttempts" /\ last.prior.lock = NoKey
ClientIPReadFailed ==
    \/ last.fault = "IsClientIPLocked"
    \/ last.fault = "TTL" /\ last.prior.ipLock # NoKey
    \/ last.fault = "GetClientIPLoginAttempts" /\ last.prior.ipLock = NoKey

\* the admission checks of the last login would let it pass without any fault
UsernameAdmits ==
    last.prior.lock = NoKey /\ last.prior.att.n < usernameRateLimitMaxAttempts
ClientIPAdmits ==
    last.prior.ipLock = NoKey /\ last.prior.ipAtt.n < IPMaxAttempts

\* C15: a login with the right password whose admission check fails to read
\* the cache is let through by that check: it succeeds when the username
\* check's read fails and the address check admits it, and when the address
\* check's read fails and the username check admits it or fails to read as
\* well.
C15_ReadFailureFailsOpen ==
    (/\ last.op = "Login"
     /\ last.username = "alice" /\ last.password = "alice-pw"
     /\ last.prior.active # {})
    => /\ (UsernameReadFailed /\ (ClientIPAdmits \/ ClientIPReadFailed)) => last.status = 200
       /\ ClientIPReadFailed => last.status # 429
       /\ (ClientIPReadFailed /\ UsernameAdmits) => last.status = 200

\* a login that succeeds because the read of a set lock failed
C15_Witness ==
    /\ last.op = "Login" /\ last.status = 200
    /\ last.fault = "IsAccountLocked"
    /\ last.prior.lock # NoKey
    /\ last.password = "alice-pw"

\* the requests of an authenticated caller
Authenticated == {"Authenticate", "Logout", "ChangePassword"}

\* C16: a request served while a call to the cache fails gets the answer of
\* its normal outcome: a login is answered 200 or refused as a login is,
\* a request that presents a valid token is answered 200, and a session is
\* resolved without error.
C16_CacheFailuresAbsorbed ==
    /\ (last.op = "Login" /\ last.fault # "none") => last.status \in {200, 401, 429}
    /\ (last.op = "Login" /\ last.fault # "none" /\ last.password = "alice-pw"
        /\ last.prior.lock = NoKey /\ last.prior.att.n < usernameRateLimitMaxAttempts
        /\ last.prior.ipLock = NoKey /\ last.prior.ipAtt.n < IPMaxAttempts)
       => last.status = 200
    /\ (last.op \in Authenticated /\ last.fault # "none"
        /\ ~ParseAccessToken(last.token, now).err)
       => last.status = 200
    /\ (last.op = "GetUserSessionData" /\ last.fault # "none") => last.err = ""

\* C17: a login with the right password for an account that is no global
\* administrator and has no active membership hands out no credential, writes
\* no session, and gets an answer other than the one for invalid credentials.
C17_NoTenantContextDistinct ==
    (/\ last.op = "Login"
     /\ last.username = "bob" /\ last.password = "bob-pw"
     /\ last.fault = "none"
     /\ last.prior.active = {}
     /\ last.err \notin Refusals)
    => /\ last.resp = NoResp
       /\ last.warmed = NoData
       /\ <<last.status, last.message>> # <<401, "Invalid credentials">>

\* C18: a login whose account lookup fails in the Record Store is answered
\* with a server error, and not as invalid credentials.
C18_StoreFailureSurfaced ==
    (/\ last.op = "Login"
     /\ last.fault = "store"
     /\ last.err \notin Refusals)
    => /\ last.status >= 500
       /\ <<last.status, last.message>> # <<401, "Invalid credentials">>

\* C19: when a login is answered 200 and its cache calls did not fail, the
\* session it built is in the cache under (account id, token id) of the token
\* it handed out, and a request that presents the token right away is let
\* through with that session read from the cache.
C19_SessionWarmedAtLogin ==
    (last.op = "Login" /\ last.status = 200 /\ last.fault = "none")
    => LET tok == last.resp.accessToken
           mw == JWTAuthMiddleware(tok, "none", now)
       IN  /\ sessions[<<tok.claims.uid, tok.claims.jti>>].data = last.warmed
           /\ mw.status = 200
           /\ ~mw.currentUser.isNil
           /\ mw.currentUser.data = last.warmed

\* a request that follows a login hits the session the login wrote
C19_Witness ==
    /\ last.op = "Authenticate" /\ last.status = 200
    /\ ~last.currentUser.isNil
    /\ last.currentUser.data.uid = 2
    /\ last.currentUser.data.tid \in ActiveTenants(2)

\* C20: for the token a login has just handed out, the session that
\* GetUserSessionData rebuilds on a cache miss equals the session the login
\* wrote, whatever the order in which the memberships are listed.
C20_RebuiltEqualsWarmed ==
    (last.op = "Login" /\ last.status = 200 /\ last.fault = "none")
    => LET claims == last.resp.accessToken.claims
       IN  \A order \in Orderings(ActiveTenants(claims.uid)) :
               LET r == GetUserSessionData(claims.uid, claims.tid, claims.jti, "GetJSON",
                                           order, now)
               IN  r.rebuilt /\ r.data = last.warmed

\* what request authentication answers for a token, on a blacklist and a
\* session cache
Resolves(bl, ss, tok) == JWTAuthMiddlewareOn(bl, ss, tok, "none", now)

\* C21: a logout leaves the session cache and its index as they were, and
\* every other credential handed out is answered by request authentication
\* after the logout as it was before, with the same session; this holds for
\* the logout requests served, and for the handler's statements that follow
\* its check of the current user, run for any credential handed out.
C21_LogoutFrame ==
    /\ [][last'.op = "Logout"
          => /\ sessions' = sessions
             /\ sessionIndex' = sessionIndex
             /\ \A tok \in issued \ {last'.token} :
                    Resolves(blacklist', sessions', tok) = Resolves(blacklist, sessions, tok)]_vars
    /\ [](\A presented \in issued : \A tok \in issued \ {presented} :
              Resolves(LogoutAsUser(blacklist, presented, "none", now).blacklist, sessions, tok)
                  = Resolves(blacklist, sessions, tok))

\* a logout with a valid credential served while another credential of the
\* same account resolves to a cached session
C21_Witness ==
    /\ last.op = "Logout" /\ last.valid
    /\ \E tok \in issued \ {last.token} :
          /\ tok.claims.uid = last.token.claims.uid
          /\ Resolves(blacklist, sessions, tok).status = 200
          /\ ~Resolves(blacklist, sessions, tok).currentUser.isNil
          /\ LogoutAsUser(blacklist, last.token, "none", now).blacklist # blacklist

\* the calls of a login that look up, verify or count a credential
CredentialCalls == {"FindByUsername", "FindByEmail", "CheckPassword", "handleSystemAdminLogin",
                    "handleTenantUserLogin", "recordLoginFailure", "clearLoginAttempts"}

\* C22: a login that the address limiter or the username limiter refuses
\* makes no query for the account, verifies no password, hands out no token
\* and leaves the Record Store, the session cache and the username's failure
\* counter as they were; a login that neither refuses has passed the address
\* check and then the username check before its first query.
C22_AdmissionFirst ==
    /\ [](last.op = "Login"
          => /\ last.err = "ip rate limited" => last.calls = <<>>
             /\ last.err = "rate limited" => last.calls = <<"checkUsernameRateLimit">>
             /\ last.err \in Refusals => last.resp = NoResp
             /\ last.err \notin Refusals
                => /\ last.calls[1] = "checkUsernameRateLimit"
                   /\ \A i \in 2..Len(last.calls) : last.calls[i] \in CredentialCalls)
    /\ [][(last'.op = "Login" /\ last'.err \in Refusals)
          => UNCHANGED <<storeVars, loginAttempts, cacheVars, issued>>]_vars

\* a login with the right password refused by the address limiter while the
\* username is locked as well and its failure counter stands at the maximum
C22_Witness ==
    /\ last.op = "Login" /\ last.password = "alice-pw"
    /\ last.err = "ip rate limited"
    /\ last.prior.lock # NoKey
    /\ loginAttempts[last.username].n = usernameRateLimitMaxAttempts

\* C23: with its reads of the cache succeeding, the admission check of a
\* username, and that of a client address, refuses exactly when the lock of
\* the key is set, whatever the failure counter holds, and leaves the lock as
\* it found it.
C23_RefusesIffLocked ==
    /\ \A u \in RateNames :
          LET chk == checkUsernameRateLimit(loginAttempts[u], loginLocked[u], now, "none")
          IN  /\ chk.refused <=> loginLocked[u] # NoKey
              /\ chk.lock = loginLocked[u]
    /\ \A ip \in ClientIPs :
          LET adm == IPAdmission(ipAttempts[ip], ipLocked[ip], now, "none")
          IN  /\ adm.refused <=> ipLocked[ip] # NoKey
              /\ adm.lock = ipLocked[ip]

\* C24: when a login failure has been recorded and the failure counter of the
\* username has reached the maximum, the lock of the username is set, with
\* an expiry later than the counter's.
C24_LockedOnOverflow ==
    (/\ last.op = "Login" /\ last.fault = "none"
     /\ "recordLoginFailure" \in {last.calls[i] : i \in DOMAIN last.calls}
     /\ loginAttempts[last.username].n >= usernameRateLimitMaxAttempts)
    => /\ loginLocked[last.username] # NoKey
       /\ loginLocked[last.username] > loginAttempts[last.username].exp

\* C25: a login of the system administrator with the right password that the
\* limiters admit succeeds, whatever memberships the account holds; its token
\* and its session carry the administrators' tenant id, its session and its
\* response are marked as a global administrator's and list no tenant, and no
\* membership row is written.
C25_AdminBypassesResolution ==
    /\ (/\ last.op = "Login" /\ last.username = "admin" /\ last.password = "admin-pw"
        /\ last.err \notin Refusals)
       => /\ last.status = 200
          /\ last.resp.accessToken.claims.tid = AdminTenantID
          /\ last.resp.isGlobalAdmin /\ last.resp.tenants = <<>>
          /\ last.warmed.tid = AdminTenantID
          /\ last.warmed.isGlobalAdmin /\ last.warmed.tenants = <<>>
          /\ sessions[<<1, last.resp.accessToken.claims.jti>>].data = last.warmed
    /\ \A k \in DOMAIN members : members[k].lastLoginAt = 0

\* the administrator logs in while holding two active memberships
C25_Witness ==
    /\ last.op = "Login" /\ last.username = "admin" /\ last.status = 200
    /\ ActiveTenants(1) = TenantIDs
    /\ last.prior.active = TenantIDs

\* the cache calls whose failure makes RevokeAllUserSessions fail
RevokeFaults == {"SMembers", "Del", "all"}

C27_BlacklistTTLIsRemaining ==
    /\ \A e \in blacklist : e.key[2] = "sha256" => e.exp <= e.key[3].claims.exp
    /\ \A tok \in issued :
          LET r == LogoutAsUser(blacklist, tok, "none", now)
          IN  IF now < tok.claims.exp
              THEN /\ r.status = 200
                   /\ r.blacklist \ blacklist =
                          {[key |-> generateAccessTokenKey(tok), exp |-> tok.claims.exp]}
              ELSE r.blacklist = blacklist

\* a logout presents a valid token some time after it was handed out, when
\* its remaining validity is shorter than its lifetime
C27_Witness ==
    /\ last.op = "Logout" /\ last.valid
    /\ now > last.token.claims.iat + 1
    /\ LogoutAsUser(blacklist, last.token, "none", now).blacklist # blacklist

\* C28: once a request with a valid token has been let through, or a session
\* has been resolved for it, with the cache available, and the write that the
\* request started on a miss has run, the session is in the cache under
\* (account id, token id) of the token, so that the next resolution hits.
C28_MissRepopulates ==
    (\/ last.op = "Authenticate" /\ last.status = 200 /\ last.fault = "none"
     \/ last.op = "GetUserSessionData" /\ last.err = "" /\ last.fault = "none")
    => ~GetUserSession(sessions, last.token.claims.uid, last.token.claims.jti, "none").err

\* the workers whose INCR of a counter has run
Counted(key) ==
    {w \in Workers : inflight.key[w] = key /\ inflight.pc[w] \in {"Expire", "done"}}

\* C29: while login failures are recorded at the same time for one username
\* and one client address, each counter holds what it held when the first of
\* them started plus the number of increments made since, in whatever order
\* their steps run, and no two increments of a counter return the same count;
\* so K failures leave the counter at its previous value plus K.
C29_NoFailureLost ==
    (\E w \in Workers : inflight.pc[w] # "idle")
    => \A key \in CounterKeys :
          /\ CounterOf(key).n = inflight.base[key] + Cardinality(Counted(key))
          /\ \A v, w \in Counted(key) : v # w => inflight.got[v] # inflight.got[w]

\* three failures of one username recorded at the same time on a counter that
\* stood at 2, all three increments made before the first expiry was set
C29_Witness ==
    /\ \A w \in Workers : inflight.key[w] = "username" /\ inflight.pc[w] = "Expire"
    /\ inflight.base["username"] = 2
    /\ loginAttempts[ConcurrentName].n = 5

\* C30: every session payload in the cache has its session id in the session
\* index of its account, and that index does not expire before the payload.
C30_PayloadIndexed ==
    \A k \in SessionKeys :
        sessions[k] # NoSession
        => /\ k[2] \in sessionIndex[k[1]].ids
           /\ \/ sessionIndex[k[1]].exp = NoExpiry
              \/ sessionIndex[k[1]].exp >= sessions[k].exp

\* C31: when the lock duration has passed since the last failure recorded for
\* a username, a login with the right password, served with the cache
\* available, succeeds, whatever write of the cache failed while the failures
\* were recorded.
C31_LockoutEnds ==
    (/\ last.op = "Login" /\ last.password = "alice-pw" /\ last.fault = "none"
     /\ ticks > 0)
    => last.status = 200

\* C32: a request whose bearer token is any string that is not a validly
\* signed, unexpired token, whatever its length and content, is answered 401
\* by the authentication middleware.
C32_BadBearerUnauthorized ==
    (last.op = "Authenticate" /\ ParseAccessToken(last.token, now).err)
    => last.status = 401

\* C33: every token handed out carries a non-empty token id (claims.ID), and
\* no two tokens handed out carry the same one.
C33_TokenIDsDistinct ==
    \A t1 \in issued :
        /\ t1.claims.jti # ""
        /\ \A t2 \in issued : t1 # t2 => t1.claims.jti # t2.claims.jti

\* C34: after one token has been added to an empty blacklist, under its hash
\* or under its token id, the matching check reports that token revoked and
\* reports every other token handed out not revoked.
C34_RevokesOnlyThatToken ==
    (last.op = "AddToBlacklist" /\ last.prior.blacklist = {})
    => \A t2 \in issued :
           IF last.by = "hash"
           THEN IsInBlacklistByTokenString(blacklist, t2) <=> (t2 = last.token)
           ELSE IsInBlacklistByTokenID(blacklist, t2) <=> (t2 = last.token)

\* The passwords verified for the username since its counter was last clear:
\* the failures recorded one by one and the goroutines that have verified
Verifications ==
    inflight.base["username"] + Cardinality({w \in Workers : inflight.pc[w] = "verified"})

\* C35: within one window and with no clearance of the counter, the passwords
\* verified for one username, by logins served one after the other and by
\* logins served at the same time in any interleaving, number at most the
\* maximum of attempts.
C35_VerificationsBounded ==
    (\E w \in Workers : inflight.pc[w] # "idle")
    => Verifications <= usernameRateLimitMaxAttempts

\* C36: a login whose password was verified and found right, and which is
\* rejected for another reason, leaves the failure counter and the lock of its
\* username as they were.
C36_OnlyBadCredentialsCount ==
    (/\ last.op = "Login"
     /\ "CheckPassword" \in {last.calls[i] : i \in DOMAIN last.calls}
     /\ LoginUser(last.username).found
     /\ CheckPassword(LoginUser(last.username).id, last.password)
     /\ last.status # 200)
    => /\ loginAttempts[last.username] = last.prior.att
       /\ loginLocked[last.username] = last.prior.lock

\* C37: a login refused by the username limiter while the lock of its username
\* is set, or by the address limiter while the lock of its address is set,
\* served with the cache available, leaves the counters and the locks of both
\* as they were.
C37_RefusedLeavesRateState ==
    (/\ last.op = "Login" /\ last.fault = "none"
     /\ \/ last.err = "rate limited" /\ last.prior.lock # NoKey
        \/ last.err = "ip rate limited" /\ last.prior.ipLock # NoKey)
    => /\ loginAttempts[last.username] = last.prior.att
       /\ loginLocked[last.username] = last.prior.lock
       /\ ipAttempts[last.clientIP] = last.prior.ipAtt
       /\ ipLocked[last.clientIP] = last.prior.ipLock

\* C38: a login for an account whose status is disabled is not answered with a
\* token and writes no session.
C38_DisabledNeverLogsIn ==
    (/\ last.op = "Login"
     /\ LoginUser(last.username).found
     /\ users[LoginUser(last.username).id].status = UserStatusInactive)
    => (last.status # 200 /\ last.warmed = NoData)

\* C39: once an account has been deleted, a request carrying any token of that
\* account is answered 401, whether a session of the account is still in the
\* cache or not.
C39_DeletedIsUnauthorized ==
    (/\ last.op = "Authenticate"
     /\ last.token.claims.uid \in UserIDs
     /\ users[last.token.claims.uid].deleted)
    => last.status = 401

====
